---- MODULE Spec2Model ----
(***************************************************************************)
(* Gerber export of fritzing-app: src/svg/gerbergenerator.cpp.             *)
(*                                                                         *)
(* SpecExport    the layer pipeline of GerberGenerator::exportToGerber     *)
(* SpecRetry     the render-retry loop of clipToBoard (lines 708-743)      *)
(*                                                                         *)
(* The collaborators outside the file (the sketch's renderer, SVG2gerber,  *)
(* the file system) are inputs: every call to one of them draws its result *)
(* from a small set.                                                       *)
(***************************************************************************)
EXTENDS Integers, Sequences, FiniteSets, TLC

VARIABLES
    \* ---- exportToGerber ----
    pc,                     \* position inside exportToGerber
    boardLayers,            \* sketchWidget->boardLayers()
    displayMessageBoxes,    \* the caller's flag
    messages,               \* everything passed to displayMessage / DebugDialog::debug, in order
    files,                  \* suffixes of the files written so far
    rendered,               \* layers for which renderTo has been called
    emptyRenders,           \* layers whose render came back empty
    clipEmpty,              \* layers for which clipToBoard returned ""
    converted,              \* layers for which SVG2gerber::convert has run
    invalid,                \* layer -> the count its convert returned
    openFailed,             \* layers whose output file could not be opened
    fillEmpty,              \* layers whose expandAndFill / makePasteMask returned ""
    clipStrings,            \* layer -> the clipString its call of clipToBoard was given
    visibleItems,           \* the items of the sketch that are visible
    hiddenInRender,         \* layer -> the items that were not visible while it was rendered
    copperInvalidCount,
    maskInvalidCount,
    pasteMaskInvalidCount,
    silkInvalidCount,
    outlineInvalidCount,
    maskBottom,             \* clip strings handed from doMask to doSilk
    maskTop,
    board,                  \* the board argument: "given", or what findSelectedBoard finds
    faults,                 \* number of inputs drawn so far that deviate from the nominal run
    \* ---- the render-retry loop of clipToBoard ----
    pcRetry,                \* "idle", "loop" (line 716), "chosen" (line 743) or "traced"
    hashMap,                \* QHash<QString, QImage>, a function from hashes to images
    counter,
    hash,
    image,                  \* the image handed to makePath
    renders,                \* the images rendered so far by the loop, in order
    \* ---- clipToBoard ----
    pcClip,                 \* position inside clipToBoard
    forWhy,
    clipString,
    treatAsCircle,          \* the connectors to draw as circles
    parsable,               \* QDomDocument::setContent succeeds on svgString
    svgString,              \* the document passed in
    svgOut,                 \* svgString once it is assigned again (line 528)
    domDocument1,
    domDocument2,
    leaves1,                \* the keys of the leaves collected from domDocument1, in order
    anyConverted,
    anyClipped,
    multipleContours,       \* what dealWithMultipleContours returned (line 414)
    rasterized,             \* the raster fallback has run
    traced,                 \* number of traced paths appended to the returned string
    merged,                 \* the calls of mergeOutlineElement: ix, and document 2 as it is then
    \* ---- checkMountTechnology ----
    pcMount,                \* "idle", "call" or "returned"
    package,                \* the package string, a sequence of characters
    technology,             \* the string returned
    \* ---- Phase B of clipToBoard on pixels ----
    another,                \* the raster of document 1 (line 596)
    clipImage,              \* the raster of the clip mask (lines 509-520)
    leafBounds,             \* the leaf's mBounds (line 616), in half pixels
    \* ---- makePath ----
    pcTrace,                \* "idle", "call" or "returned"
    monoImage,              \* the image argument
    unit,                   \* the unit argument
    pathData,               \* the path data built (paths), a sequence of segments
    \* ---- cleanOutline ----
    pcOutline,              \* "idle", "call" or "returned"
    outlineDoc,             \* the document of the argument outlineSvg
    cleaned,                \* what cleanOutline returned
    \* ---- PartsBinPaletteWidget ----
    PaletteBinModels,       \* the static hash: file name -> model, nullptr when absent
    modelCount,             \* the PaletteModels made by load so far; they are numbered
    loadedFrom,             \* model -> the file it was loaded from, "" when loading failed
    deletedModels,          \* the models cleanup has deleted
    m_fileName,             \* widget -> m_fileName
    m_model,                \* widget -> m_model
    m_fastLoaded,           \* widget -> m_fastLoaded
    m_saveQuietly,          \* widget -> m_saveQuietly
    windowModified,         \* widget -> isWindowModified()
    saved,                  \* the files PaletteModel::save has written
    lastLoad,               \* the last call of load or cleanup
    lastClose               \* the last call of beforeClosing

varsExport == <<pc, boardLayers, displayMessageBoxes, messages, files, rendered,
                emptyRenders, clipEmpty, converted, invalid, openFailed, fillEmpty,
                clipStrings, visibleItems, hiddenInRender,
                copperInvalidCount, maskInvalidCount, pasteMaskInvalidCount,
                silkInvalidCount, outlineInvalidCount, maskBottom, maskTop, board, faults>>

varsRetry == <<pcRetry, hashMap, counter, hash, image, renders>>

varsClip == <<pcClip, forWhy, clipString, treatAsCircle, parsable, svgString, svgOut,
              domDocument1, domDocument2, leaves1, anyConverted, anyClipped,
              multipleContours, rasterized, traced, merged>>

varsMount == <<pcMount, package, technology>>

varsPixels == <<another, clipImage, leafBounds>>

varsTrace == <<pcTrace, monoImage, unit, pathData>>

varsOutline == <<pcOutline, outlineDoc, cleaned>>

varsBin == <<PaletteBinModels, modelCount, loadedFrom, deletedModels, m_fileName, m_model,
             m_fastLoaded, m_saveQuietly, windowModified, saved, lastLoad, lastClose>>

varsMore == <<varsPixels, varsTrace, varsOutline, varsBin>>

vars == <<varsExport, varsRetry, varsClip, varsMount, varsMore>>

-----------------------------------------------------------------------------
(* Bounds *)

\* at most this many inputs of one export deviate from the nominal run
\* (render non-empty and parsable, exact conversion, file opened)
MaxFaults == 3
\* the largest count SVG2gerber::convert returns for one layer
MaxInvalid == 1
\* the number of different pixel buffers the renderer can produce for one document
NumImages == 6

-----------------------------------------------------------------------------
(* File suffixes, lines 43-53 *)

SilkTopSuffix == "_silkTop.gto"
SilkBottomSuffix == "_silkBottom.gbo"
CopperTopSuffix == "_copperTop.gtl"
CopperBottomSuffix == "_copperBottom.gbl"
MaskTopSuffix == "_maskTop.gts"
MaskBottomSuffix == "_maskBottom.gbs"
PasteMaskTopSuffix == "_pasteMaskTop.gtp"
PasteMaskBottomSuffix == "_pasteMaskBottom.gbp"
DrillSuffix == "_drill.txt"
OutlineSuffix == "_contour.gm1"
PickAndPlaceSuffix == "_pnp.xy"

\* the layers of one export, by the name the code gives each
Layers == {"Copper0", "Copper1", "Mask0", "Mask1", "PasteMask0", "PasteMask1",
           "Silk1", "Silk0", "contour", "drill"}

\* clipStrings of a layer for which clipToBoard has not been called
NotCalled == "not called"

\* the items of the sketch whose visibility the export changes: a copper logo
\* item and a hole
CopperLogoItems == {"logo"}
HoleItems == {"hole"}
Items == CopperLogoItems \cup HoleItems

\* the layers exportToGerber asks for on a board with n copper layers
LayersOf(n) == IF n = 2 THEN Layers
               ELSE Layers \ {"Copper1", "Mask1", "PasteMask1"}

SuffixOf(layer) ==
    CASE layer = "Copper0" -> CopperBottomSuffix
      [] layer = "Copper1" -> CopperTopSuffix
      [] layer = "Mask0" -> MaskBottomSuffix
      [] layer = "Mask1" -> MaskTopSuffix
      [] layer = "PasteMask0" -> PasteMaskBottomSuffix
      [] layer = "PasteMask1" -> PasteMaskTopSuffix
      [] layer = "Silk1" -> SilkTopSuffix
      [] layer = "Silk0" -> SilkBottomSuffix
      [] layer = "contour" -> OutlineSuffix
      [] layer = "drill" -> DrillSuffix

-----------------------------------------------------------------------------
(* Inputs of one layer *)

\* what renderTo hands back: the empty flag and the svg string.  The string is
\* "" (empty), "unparsable" (QDomDocument::setContent fails on it), "nochild"
\* (its root has no child element), "noleaves" (it has children but no leaf),
\* "doc" (a document with drawable leaves) or "cutouts" (such a document with
\* a multi-contour path one of whose subpaths does not start with a move)
SvgStrings == {"", "unparsable", "nochild", "noleaves", "doc", "cutouts"}

RenderResults == [empty : {TRUE}, svg : {"", "doc"}]
                    \cup [empty : {FALSE}, svg : SvgStrings]

\* in.render: the result of renderTo;  in.fill: FALSE when the layer's
\* post-processing (expandAndFill, makePasteMask) returns "";  in.invalid:
\* the count convert returns;  in.open: whether QFile::open succeeds
LayerInputs == [render : RenderResults, fill : BOOLEAN,
                invalid : 0..MaxInvalid, open : BOOLEAN]

Nominal == [render |-> [empty |-> FALSE, svg |-> "doc"], fill |-> TRUE,
            invalid |-> 0, open |-> TRUE]

Cost(in) == (IF in.render = Nominal.render THEN 0 ELSE 1)
            + (IF in.fill THEN 0 ELSE 1)
            + (IF in.invalid = 0 THEN 0 ELSE 1)
            + (IF in.open THEN 0 ELSE 1)

-----------------------------------------------------------------------------
(* The effects of one call, as a record of the variables it writes *)

IO == [messages |-> messages, files |-> files, rendered |-> rendered,
       emptyRenders |-> emptyRenders, clipEmpty |-> clipEmpty,
       converted |-> converted, invalid |-> invalid, openFailed |-> openFailed,
       fillEmpty |-> fillEmpty, clipStrings |-> clipStrings,
       visibleItems |-> visibleItems, hiddenInRender |-> hiddenInRender]

SetIO(io) ==
    /\ messages' = io.messages
    /\ files' = io.files
    /\ rendered' = io.rendered
    /\ emptyRenders' = io.emptyRenders
    /\ clipEmpty' = io.clipEmpty
    /\ converted' = io.converted
    /\ invalid' = io.invalid
    /\ openFailed' = io.openFailed
    /\ fillEmpty' = io.fillEmpty
    /\ clipStrings' = io.clipStrings
    /\ visibleItems' = io.visibleItems
    /\ hiddenInRender' = io.hiddenInRender

\* lines 361-369: a modal warning when displayMessageBoxes, a debug line otherwise.
\* layer is the layer whose processing emitted the message ("" for none)
displayMessage(io, text, arg, layer) ==
    [io EXCEPT !.messages = Append(@, [text |-> text, arg |-> arg, layer |-> layer,
                                       modal |-> displayMessageBoxes])]

\* lines 1168-1178
renderTo(io, layer, in) ==
    [io EXCEPT !.rendered = @ \cup {layer},
               !.emptyRenders = IF in.render.empty \/ in.render.svg = ""
                                THEN @ \cup {layer} ELSE @,
               !.hiddenInRender[layer] = Items \ io.visibleItems]

\* PCBSketchWidget::hideCopperLogoItems, called at lines 268 and 303: the
\* visible copper logo items are hidden and put on the list
hideCopperLogoItems(io) ==
    [io |-> [io EXCEPT !.visibleItems = @ \ CopperLogoItems],
     list |-> io.visibleItems \cap CopperLogoItems]

\* PCBSketchWidget::hideHoles, called at line 305
hideHoles(io) ==
    [io |-> [io EXCEPT !.visibleItems = @ \ HoleItems],
     list |-> io.visibleItems \cap HoleItems]

\* PCBSketchWidget::restoreItemVisibility, called at lines 272 and 309-310:
\* the items of the list are made visible
restoreItemVisibility(io, list) == [io EXCEPT !.visibleItems = @ \cup list]

\* lines 371-377: clip is the clipString argument of the call of clipToBoard
\* for layerName
clipToBoard(io, layerName, clip) ==
    [io EXCEPT !.clipStrings[layerName] = clip]

renderIsEmpty(in) == in.render.empty \/ in.render.svg = ""

\* lines 377-391: the early returns of clipToBoard; the document otherwise
clipToBoardResult(svgIn, layerName) ==
    IF svgIn \in {"", "unparsable", "nochild"} THEN "" ELSE layerName

\* lines 343-359
saveEnd(io, layerName, suffix, in) ==
    IF ~in.open
    THEN [displayMessage(io, "%1 layer: unable to save to '%2'", suffix, layerName)
            EXCEPT !.openFailed = @ \cup {layerName}]
    ELSE [io EXCEPT !.files = @ \cup {suffix}]

\* lines 331-341
doEnd(io, layerName, suffix, in) ==
    LET io1 == [io EXCEPT !.converted = @ \cup {layerName},
                          !.invalid[layerName] = in.invalid]
    IN [io |-> saveEnd(io1, layerName, suffix, in), ret |-> in.invalid]

\* lines 164-192
doCopper(io, copperName, copperSuffix, in) ==
    LET io1 == renderTo(io, copperName, in)
        svg == clipToBoardResult(in.render.svg, copperName)
        io2 == clipToBoard(io1, copperName, "")
    IN IF renderIsEmpty(in)
       THEN [io |-> displayMessage(io1, "%1 layer export is empty.", copperName, copperName),
             ret |-> 0]
       ELSE IF svg = ""
       THEN [io |-> [displayMessage(io2, "%1 layer export is empty (case 2).", copperName, copperName)
                        EXCEPT !.clipEmpty = @ \cup {copperName}],
             ret |-> 0]
       ELSE doEnd(io2, copperName, copperSuffix, in)

\* doSilk without the test for the top silkscreen layer
doSilkUnguarded(io, isTop, silkName, gerberSuffix, in, clip) ==
    LET io1 == renderTo(io, silkName, in)
        svgSilk == clipToBoardResult(in.render.svg, silkName)
        io2 == clipToBoard(io1, silkName, clip)
    IN IF renderIsEmpty(in)
       THEN [io |-> displayMessage(io1, "silk layer %1 export is empty", silkName, silkName),
             ret |-> 0]
       ELSE IF svgSilk = ""
       THEN [io |-> [displayMessage(io2, "silk export failure", "", silkName)
                        EXCEPT !.clipEmpty = @ \cup {silkName}],
             ret |-> 0]
       ELSE doEnd(io2, silkName, gerberSuffix, in)

\* lines 195-229.  ViewLayer::silkLayers(NewTop) holds Silkscreen1,
\* silkLayers(NewBottom) does not: isTop stands for
\* silkLayerIDs.contains(ViewLayer::Silkscreen1)
doSilk(io, isTop, silkName, gerberSuffix, in, clip) ==
    LET io1 == renderTo(io, silkName, in)
        svgSilk == clipToBoardResult(in.render.svg, silkName)
        io2 == clipToBoard(io1, silkName, clip)
    IN IF renderIsEmpty(in)
       THEN [io |-> IF isTop
                    THEN displayMessage(io1, "silk layer %1 export is empty", silkName, silkName)
                    ELSE io1,
             ret |-> 0]
       ELSE IF svgSilk = ""
       THEN [io |-> [displayMessage(io2, "silk export failure", "", silkName)
                        EXCEPT !.clipEmpty = @ \cup {silkName}],
             ret |-> 0]
       ELSE doEnd(io2, silkName, gerberSuffix, in)

\* lines 232-262
doDrill(io, in) ==
    LET io1 == renderTo(io, "drill", in)
        svgDrill == clipToBoardResult(in.render.svg, "drill")
        io2 == clipToBoard(io1, "drill", "")
    IN IF renderIsEmpty(in)
       THEN [io |-> displayMessage(io1, "exported drill file is empty", "", "drill"),
             ret |-> 0]
       ELSE IF svgDrill = ""
       THEN [io |-> [displayMessage(io2, "drill export failure", "", "drill")
                        EXCEPT !.clipEmpty = @ \cup {"drill"}],
             ret |-> 0]
       ELSE doEnd(io2, "drill", DrillSuffix, in)

\* doMask without line 294: the reference parameter keeps its value
doMaskKeepingClip(io, maskName, gerberSuffix, in, clipIn) ==
    LET hid == hideCopperLogoItems(io)
        io1 == restoreItemVisibility(renderTo(hid.io, maskName, in), hid.list)
        svgMask == clipToBoardResult(in.render.svg, maskName)
        io2 == clipToBoard(io1, maskName, "")
    IN IF renderIsEmpty(in)
       THEN [io |-> displayMessage(io1, "exported mask layer %1 is empty", maskName, maskName),
             ret |-> 0, clipString |-> clipIn]
       ELSE IF ~in.fill
       THEN [io |-> [displayMessage(io1, "%1 mask export failure (2)", maskName, maskName)
                        EXCEPT !.fillEmpty = @ \cup {maskName}],
             ret |-> 0, clipString |-> clipIn]
       ELSE IF svgMask = ""
       THEN [io |-> [displayMessage(io2, "mask export failure", "", maskName)
                        EXCEPT !.clipEmpty = @ \cup {maskName}],
             ret |-> 0, clipString |-> clipIn]
       ELSE LET end == doEnd(io2, maskName, gerberSuffix, in)
            IN [io |-> end.io, ret |-> end.ret, clipString |-> clipIn]

\* lines 264-297.  clipIn is the reference parameter clipString on entry, the
\* field clipString of the result its value on return
doMask(io, maskName, gerberSuffix, in, clipIn) ==
    LET hid == hideCopperLogoItems(io)
        io1 == restoreItemVisibility(renderTo(hid.io, maskName, in), hid.list)
        svgMask == clipToBoardResult(in.render.svg, maskName)
        io2 == clipToBoard(io1, maskName, "")
    IN IF renderIsEmpty(in)
       THEN [io |-> displayMessage(io1, "exported mask layer %1 is empty", maskName, maskName),
             ret |-> 0, clipString |-> clipIn]
       ELSE IF ~in.fill
       THEN [io |-> [displayMessage(io1, "%1 mask export failure (2)", maskName, maskName)
                        EXCEPT !.fillEmpty = @ \cup {maskName}],
             ret |-> 0, clipString |-> clipIn]
       ELSE IF svgMask = ""
       THEN [io |-> [displayMessage(io2, "mask export failure", "", maskName)
                        EXCEPT !.clipEmpty = @ \cup {maskName}],
             ret |-> 0, clipString |-> clipIn]
       ELSE LET end == doEnd(io2, maskName, gerberSuffix, in)
            IN [io |-> end.io, ret |-> end.ret, clipString |-> svgMask]

\* doPasteMask without line 310: the holes stay hidden
doPasteMaskHolesHidden(io, maskName, gerberSuffix, in) ==
    LET hidLogos == hideCopperLogoItems(io)
        hidHoles == hideHoles(hidLogos.io)
        io1 == restoreItemVisibility(renderTo(hidHoles.io, maskName, in), hidLogos.list)
        svgMask == clipToBoardResult(in.render.svg, maskName)
        io2 == clipToBoard(io1, maskName, "")
    IN IF renderIsEmpty(in)
       THEN [io |-> displayMessage(io1, "exported paste mask layer is empty", "", maskName),
             ret |-> 0]
       ELSE IF ~in.fill
       THEN [io |-> [io1 EXCEPT !.fillEmpty = @ \cup {maskName}], ret |-> 0]
       ELSE IF svgMask = ""
       THEN [io |-> [displayMessage(io2, "mask export failure", "", maskName)
                        EXCEPT !.clipEmpty = @ \cup {maskName}],
             ret |-> 0]
       ELSE doEnd(io2, maskName, gerberSuffix, in)

\* lines 299-329
doPasteMask(io, maskName, gerberSuffix, in) ==
    LET hidLogos == hideCopperLogoItems(io)
        hidHoles == hideHoles(hidLogos.io)
        io1 == restoreItemVisibility(
                   restoreItemVisibility(renderTo(hidHoles.io, maskName, in), hidLogos.list),
                   hidHoles.list)
        svgMask == clipToBoardResult(in.render.svg, maskName)
        io2 == clipToBoard(io1, maskName, "")
    IN IF renderIsEmpty(in)
       THEN [io |-> displayMessage(io1, "exported paste mask layer is empty", "", maskName),
             ret |-> 0]
       ELSE IF ~in.fill
       THEN [io |-> [io1 EXCEPT !.fillEmpty = @ \cup {maskName}], ret |-> 0]
       ELSE IF svgMask = ""
       THEN [io |-> [displayMessage(io2, "mask export failure", "", maskName)
                        EXCEPT !.clipEmpty = @ \cup {maskName}],
             ret |-> 0]
       ELSE doEnd(io2, maskName, gerberSuffix, in)

\* lines 787-821, as far as exportToGerber sees it: "" when the document has
\* no leaf, a document otherwise
cleanOutline(outlineSvg) == IF outlineSvg = "noleaves" THEN "" ELSE outlineSvg

-----------------------------------------------------------------------------
(* exportToGerber, lines 80-162, one action per call it makes *)

MaskLayers == {"Mask0", "Mask1", "PasteMask0", "PasteMask1"}

\* the inputs layer can draw; an input the layer never reads is left nominal
Inputs(layer) ==
    {in \in LayerInputs :
        /\ (layer \notin MaskLayers => in.fill)
        /\ (layer # "contour" => in.render.svg \notin {"noleaves", "cutouts"})
        /\ (renderIsEmpty(in) => in.fill /\ in.invalid = 0 /\ in.open)
        /\ (~in.fill => in.render.svg = "doc" /\ in.invalid = 0 /\ in.open)
        /\ (layer # "contour" /\ clipToBoardResult(in.render.svg, layer) = ""
                => in.invalid = 0 /\ in.open)
        /\ faults + Cost(in) <= MaxFaults}

Draw(in) == faults' = faults + Cost(in)

\* the variables exportToGerber does not touch
notExport == <<varsRetry, varsClip, varsMount, varsMore>>

\* Phase B is not looking at pixels
IdlePixels ==
    /\ another = <<>>
    /\ clipImage = <<>>
    /\ leafBounds = [left |-> 0, top |-> 0, right |-> 0, bottom |-> 0]

\* makePath is not running
IdleTrace ==
    /\ pcTrace = "idle"
    /\ monoImage = <<>>
    /\ unit = 1
    /\ pathData = <<>>

\* cleanOutline is not running
IdleOutline ==
    /\ pcOutline = "idle"
    /\ outlineDoc = <<>>
    /\ cleaned = [empty |-> TRUE, removed |-> {}]

\* the widgets and the files of the parts bins
Widgets == {"w1", "w2"}
nullptr == 0
CorePartsBinLocation == ":/resources/bins/core.fzb"
BinFiles == {CorePartsBinLocation, "my.fzb"}

NoLoad == [op |-> "none", widget |-> "", filename |-> "", fastLoad |-> FALSE, ok |-> FALSE]
NoClose == [op |-> "none", widget |-> "", reply |-> "", dialog |-> FALSE, chosen |-> "",
            saveCalled |-> FALSE, saveAsCalled |-> FALSE, saveResult |-> FALSE,
            wrote |-> "", retval |-> FALSE]

\* lines 59-67 and 77-83: the widgets as the constructor leaves them, the
\* static hash empty (line 53)
IdleBin ==
    /\ PaletteBinModels = [f \in BinFiles |-> nullptr]
    /\ modelCount = 0
    /\ loadedFrom = <<>>
    /\ deletedModels = {}
    /\ m_fileName = [w \in Widgets |-> ""]
    /\ m_model = [w \in Widgets |-> nullptr]
    /\ m_fastLoaded = [w \in Widgets |-> FALSE]
    /\ m_saveQuietly = [w \in Widgets |-> FALSE]
    /\ windowModified = [w \in Widgets |-> FALSE]
    /\ saved = {}
    /\ lastLoad = NoLoad
    /\ lastClose = NoClose

IdleMore == IdlePixels /\ IdleTrace /\ IdleOutline /\ IdleBin

\* checkMountTechnology is not running
IdleMount ==
    /\ pcMount = "idle"
    /\ package = <<>>
    /\ technology = ""

\* clipToBoard is not running
IdleClip ==
    /\ pcClip = "idle"
    /\ forWhy = "ForCopper"
    /\ clipString = ""
    /\ treatAsCircle = {}
    /\ parsable = TRUE
    /\ svgString = <<>>
    /\ svgOut = <<>>
    /\ domDocument1 = <<>>
    /\ domDocument2 = <<>>
    /\ leaves1 = <<>>
    /\ anyConverted = FALSE
    /\ anyClipped = FALSE
    /\ multipleContours = FALSE
    /\ rasterized = FALSE
    /\ traced = 0
    /\ merged = <<>>

\* the retry loop is not running
IdleRetry ==
    /\ pcRetry = "idle"
    /\ hashMap = [h \in {} |-> 0]
    /\ counter = 0
    /\ hash = <<>>
    /\ image = 0
    /\ renders = <<>>

\* the state on entry to exportToGerber
ExportStart ==
    /\ pc = "start"
    /\ board \in {"given", "none", "one", "multiple"}
    /\ boardLayers \in {1, 2}
    /\ displayMessageBoxes \in BOOLEAN
    /\ messages = <<>>
    /\ files = {}
    /\ rendered = {}
    /\ emptyRenders = {}
    /\ clipEmpty = {}
    /\ converted = {}
    /\ invalid = [l \in Layers |-> 0]
    /\ openFailed = {}
    /\ fillEmpty = {}
    /\ clipStrings = [l \in Layers |-> NotCalled]
    /\ visibleItems = Items
    /\ hiddenInRender = [l \in Layers |-> {}]
    /\ copperInvalidCount = 0
    /\ maskInvalidCount = 0
    /\ pasteMaskInvalidCount = 0
    /\ silkInvalidCount = 0
    /\ outlineInvalidCount = 0
    /\ maskBottom = ""
    /\ maskTop = ""
    /\ faults = 0

\* lines 82-93
FindBoard ==
    /\ pc = "start"
    /\ UNCHANGED notExport
    /\ IF board = "none"
       THEN /\ messages' = Append(messages, [text |-> "board not found", arg |-> "",
                                             layer |-> "", modal |-> FALSE])
            /\ pc' = "done"
       ELSE IF board = "multiple"
       THEN /\ messages' = Append(messages, [text |-> "multiple boards found", arg |-> "",
                                             layer |-> "", modal |-> FALSE])
            /\ pc' = "done"
       ELSE /\ messages' = messages
            /\ pc' = "pnp"
    /\ UNCHANGED <<board, boardLayers, displayMessageBoxes, files, rendered, emptyRenders,
                   clipEmpty, converted, invalid, openFailed, fillEmpty, clipStrings,
                   visibleItems, hiddenInRender, copperInvalidCount,
                   maskInvalidCount, pasteMaskInvalidCount, silkInvalidCount,
                   outlineInvalidCount, maskBottom, maskTop, faults>>

\* line 95 and lines 1001-1096, as far as the file and the diagnostic go
ExportPickAndPlace ==
    /\ pc = "pnp"
    /\ UNCHANGED notExport
    /\ \E open \in BOOLEAN :
        /\ faults + (IF open THEN 0 ELSE 1) <= MaxFaults
        /\ faults' = faults + (IF open THEN 0 ELSE 1)
        /\ IF open
           THEN SetIO([IO EXCEPT !.files = @ \cup {PickAndPlaceSuffix}])
           ELSE SetIO(displayMessage(IO, "Unable to save pick and place file: %2",
                                     PickAndPlaceSuffix, ""))
    /\ pc' = "Copper0"
    /\ UNCHANGED <<board, boardLayers, displayMessageBoxes, copperInvalidCount,
                   maskInvalidCount, pasteMaskInvalidCount, silkInvalidCount,
                   outlineInvalidCount, maskBottom, maskTop>>

\* lines 97-98
Copper0 ==
    /\ pc = "Copper0"
    /\ UNCHANGED notExport
    /\ \E in \in Inputs("Copper0") :
        LET r == doCopper(IO, "Copper0", CopperBottomSuffix, in)
        IN /\ SetIO(r.io)
           /\ copperInvalidCount' = r.ret
           /\ Draw(in)
    /\ pc' = IF boardLayers = 2 THEN "Copper1" ELSE "Mask0"
    /\ UNCHANGED <<board, boardLayers, displayMessageBoxes, maskInvalidCount,
                   pasteMaskInvalidCount, silkInvalidCount, outlineInvalidCount,
                   maskBottom, maskTop>>

\* lines 100-103
Copper1 ==
    /\ pc = "Copper1"
    /\ UNCHANGED notExport
    /\ \E in \in Inputs("Copper1") :
        LET r == doCopper(IO, "Copper1", CopperTopSuffix, in)
        IN /\ SetIO(r.io)
           /\ copperInvalidCount' = copperInvalidCount + r.ret
           /\ Draw(in)
    /\ pc' = "Mask0"
    /\ UNCHANGED <<board, boardLayers, displayMessageBoxes, maskInvalidCount,
                   pasteMaskInvalidCount, silkInvalidCount, outlineInvalidCount,
                   maskBottom, maskTop>>

\* lines 105-107
Mask0 ==
    /\ pc = "Mask0"
    /\ UNCHANGED notExport
    /\ \E in \in Inputs("Mask0") :
        LET r == doMask(IO, "Mask0", MaskBottomSuffix, in, maskBottom)
        IN /\ SetIO(r.io)
           /\ maskInvalidCount' = r.ret
           /\ maskBottom' = r.clipString
           /\ Draw(in)
    /\ pc' = IF boardLayers = 2 THEN "Mask1" ELSE "PasteMask0"
    /\ UNCHANGED <<board, boardLayers, displayMessageBoxes, copperInvalidCount,
                   pasteMaskInvalidCount, silkInvalidCount, outlineInvalidCount, maskTop>>

\* lines 109-112
Mask1 ==
    /\ pc = "Mask1"
    /\ UNCHANGED notExport
    /\ \E in \in Inputs("Mask1") :
        LET r == doMask(IO, "Mask1", MaskTopSuffix, in, maskTop)
        IN /\ SetIO(r.io)
           /\ maskInvalidCount' = maskInvalidCount + r.ret
           /\ maskTop' = r.clipString
           /\ Draw(in)
    /\ pc' = "PasteMask0"
    /\ UNCHANGED <<board, boardLayers, displayMessageBoxes, copperInvalidCount,
                   pasteMaskInvalidCount, silkInvalidCount, outlineInvalidCount, maskBottom>>

\* lines 114-115
PasteMask0 ==
    /\ pc = "PasteMask0"
    /\ UNCHANGED notExport
    /\ \E in \in Inputs("PasteMask0") :
        LET r == doPasteMask(IO, "PasteMask0", PasteMaskBottomSuffix, in)
        IN /\ SetIO(r.io)
           /\ pasteMaskInvalidCount' = r.ret
           /\ Draw(in)
    /\ pc' = IF boardLayers = 2 THEN "PasteMask1" ELSE "Silk1"
    /\ UNCHANGED <<board, boardLayers, displayMessageBoxes, copperInvalidCount,
                   maskInvalidCount, silkInvalidCount, outlineInvalidCount,
                   maskBottom, maskTop>>

\* lines 117-120
PasteMask1 ==
    /\ pc = "PasteMask1"
    /\ UNCHANGED notExport
    /\ \E in \in Inputs("PasteMask1") :
        LET r == doPasteMask(IO, "PasteMask1", PasteMaskTopSuffix, in)
        IN /\ SetIO(r.io)
           /\ pasteMaskInvalidCount' = pasteMaskInvalidCount + r.ret
           /\ Draw(in)
    /\ pc' = "Silk1"
    /\ UNCHANGED <<board, boardLayers, displayMessageBoxes, copperInvalidCount,
                   maskInvalidCount, silkInvalidCount, outlineInvalidCount,
                   maskBottom, maskTop>>

\* lines 122-123
Silk1 ==
    /\ pc = "Silk1"
    /\ UNCHANGED notExport
    /\ \E in \in Inputs("Silk1") :
        LET r == doSilk(IO, TRUE, "Silk1", SilkTopSuffix, in, maskTop)
        IN /\ SetIO(r.io)
           /\ silkInvalidCount' = r.ret
           /\ Draw(in)
    /\ pc' = "Silk0"
    /\ UNCHANGED <<board, boardLayers, displayMessageBoxes, copperInvalidCount,
                   maskInvalidCount, pasteMaskInvalidCount, outlineInvalidCount,
                   maskBottom, maskTop>>

\* lines 124-125
Silk0 ==
    /\ pc = "Silk0"
    /\ UNCHANGED notExport
    /\ \E in \in Inputs("Silk0") :
        LET r == doSilk(IO, FALSE, "Silk0", SilkBottomSuffix, in, maskBottom)
        IN /\ SetIO(r.io)
           /\ silkInvalidCount' = silkInvalidCount + r.ret
           /\ Draw(in)
    /\ pc' = "contour"
    /\ UNCHANGED <<board, boardLayers, displayMessageBoxes, copperInvalidCount,
                   maskInvalidCount, pasteMaskInvalidCount, outlineInvalidCount,
                   maskBottom, maskTop>>

\* lines 127-147: the outline.  An empty render returns from exportToGerber;
\* the result of clipToBoard is converted and saved whatever it is, also
\* after dealWithMultipleContours displayed the malformed-cutout diagnostic
\* (lines 414-416 and 923-930)
outline(io, in) ==
    LET io1 == renderTo(io, "contour", in)
        svgOutline == clipToBoardResult(cleanOutline(in.render.svg), "contour")
        io1a == IF cleanOutline(in.render.svg) = "cutouts"
                THEN displayMessage(io1, "cutouts", "", "contour") ELSE io1
        io2 == [clipToBoard(io1a, "contour", "")
                     EXCEPT !.clipEmpty = IF svgOutline = "" THEN @ \cup {"contour"} ELSE @,
                           !.converted = @ \cup {"contour"},
                           !.invalid["contour"] = in.invalid]
    IN IF renderIsEmpty(in)
       THEN [io |-> displayMessage(io1, "outline is empty", "", "contour"),
             ret |-> 0, return |-> TRUE]
       ELSE [io |-> saveEnd(io2, "contour", OutlineSuffix, in),
             ret |-> in.invalid, return |-> FALSE]

Outline ==
    /\ pc = "contour"
    /\ UNCHANGED notExport
    /\ \E in \in Inputs("contour") :
        LET r == outline(IO, in)
        IN /\ SetIO(r.io)
           /\ outlineInvalidCount' = r.ret
           /\ pc' = IF r.return THEN "done" ELSE "drill"
           /\ Draw(in)
    /\ UNCHANGED <<board, boardLayers, displayMessageBoxes, copperInvalidCount,
                   maskInvalidCount, pasteMaskInvalidCount, silkInvalidCount,
                   maskBottom, maskTop>>

\* line 149: the count doDrill returns is dropped
Drill ==
    /\ pc = "drill"
    /\ UNCHANGED notExport
    /\ \E in \in Inputs("drill") :
        LET r == doDrill(IO, in)
        IN /\ SetIO(r.io)
           /\ Draw(in)
    /\ pc' = "summary"
    /\ UNCHANGED <<board, boardLayers, displayMessageBoxes, copperInvalidCount,
                   maskInvalidCount, pasteMaskInvalidCount, silkInvalidCount,
                   outlineInvalidCount, maskBottom, maskTop>>

\* lines 153-158: the categories the consolidated diagnostic names
summaryCategories ==
    (IF outlineInvalidCount > 0 THEN <<"the board outline layer">> ELSE <<>>)
    \o (IF silkInvalidCount > 0 THEN <<"silkscreen layer(s)">> ELSE <<>>)
    \o (IF copperInvalidCount > 0 THEN <<"copper layer(s)">> ELSE <<>>)
    \o (IF maskInvalidCount > 0 THEN <<"mask layer(s)">> ELSE <<>>)
    \o (IF pasteMaskInvalidCount > 0 THEN <<"paste mask layer(s)">> ELSE <<>>)

\* line 151
summaryNeeded ==
    \/ outlineInvalidCount > 0
    \/ silkInvalidCount > 0
    \/ copperInvalidCount > 0
    \/ maskInvalidCount # 0
    \/ pasteMaskInvalidCount # 0

\* lines 151-160
Summary ==
    /\ pc = "summary"
    /\ UNCHANGED notExport
    /\ IF summaryNeeded
       THEN SetIO(displayMessage(IO, "Unable to translate svg curves in %1",
                                 summaryCategories, ""))
       ELSE SetIO(IO)
    /\ pc' = "done"
    /\ UNCHANGED <<board, boardLayers, displayMessageBoxes, copperInvalidCount,
                   maskInvalidCount, pasteMaskInvalidCount, silkInvalidCount,
                   outlineInvalidCount, maskBottom, maskTop, faults>>

NextExport ==
    \/ FindBoard
    \/ ExportPickAndPlace
    \/ Copper0
    \/ Copper1
    \/ Mask0
    \/ Mask1
    \/ PasteMask0
    \/ PasteMask1
    \/ Silk1
    \/ Silk0
    \/ Outline
    \/ Drill
    \/ Summary

InitExport == ExportStart /\ IdleRetry /\ IdleClip /\ IdleMount /\ IdleMore

SpecExport == InitExport /\ [][NextExport]_vars

\* the state on entry to exportToGerber for a given board, whatever items of
\* the sketch are visible
ExportStartVisibility ==
    /\ pc = "start"
    /\ board = "given"
    /\ boardLayers \in {1, 2}
    /\ displayMessageBoxes = FALSE
    /\ messages = <<>>
    /\ files = {}
    /\ rendered = {}
    /\ emptyRenders = {}
    /\ clipEmpty = {}
    /\ converted = {}
    /\ invalid = [l \in Layers |-> 0]
    /\ openFailed = {}
    /\ fillEmpty = {}
    /\ clipStrings = [l \in Layers |-> NotCalled]
    /\ visibleItems \in SUBSET Items
    /\ hiddenInRender = [l \in Layers |-> {}]
    /\ copperInvalidCount = 0
    /\ maskInvalidCount = 0
    /\ pasteMaskInvalidCount = 0
    /\ silkInvalidCount = 0
    /\ outlineInvalidCount = 0
    /\ maskBottom = ""
    /\ maskTop = ""
    /\ faults = 0

InitVisibility == ExportStartVisibility /\ IdleRetry /\ IdleClip /\ IdleMount /\ IdleMore

SpecVisibility == InitVisibility /\ [][NextExport]_vars

-----------------------------------------------------------------------------
(* Properties of the layer pipeline *)

Range(s) == {s[i] : i \in DOMAIN s}

\* a board was given or found, so the layers are processed
Found == board \in {"given", "one"}

EmptyLayerTexts == {"%1 layer export is empty.", "silk layer %1 export is empty",
                    "exported drill file is empty", "exported mask layer %1 is empty",
                    "exported paste mask layer is empty", "outline is empty"}

ClipEmptyTexts == {"%1 layer export is empty (case 2).", "silk export failure",
                   "drill export failure", "mask export failure"}

SaveFailedText == "%1 layer: unable to save to '%2'"

SummaryText == "Unable to translate svg curves in %1"

Summaries == {i \in DOMAIN messages : messages[i].text = SummaryText}

\* the category under which the consolidated diagnostic names a layer
CategoryOf(layer) ==
    CASE layer \in {"Copper0", "Copper1"} -> "copper layer(s)"
      [] layer \in {"Mask0", "Mask1"} -> "mask layer(s)"
      [] layer \in {"PasteMask0", "PasteMask1"} -> "paste mask layer(s)"
      [] layer \in {"Silk0", "Silk1"} -> "silkscreen layer(s)"
      [] layer = "contour" -> "the board outline layer"
      [] layer = "drill" -> "drill"

EmptyReported(l) ==
    \E i \in DOMAIN messages :
        /\ messages[i].layer = l
        /\ messages[i].text \in EmptyLayerTexts
        /\ messages[i].modal = displayMessageBoxes

\* C1: when the export has ended, every layer whose render came back empty has
\* no file, and every other layer of the export has been rendered, has been
\* converted unless its own document came back empty, and has been saved
\* unless its own file could not be opened; the outline layer included.
C1_EmptyRenderIsNonFatal ==
    pc = "done" /\ Found =>
        \A l \in emptyRenders :
            /\ SuffixOf(l) \notin files
            /\ \A m \in LayersOf(boardLayers) \ {l} :
                /\ m \in rendered
                /\ (m \notin emptyRenders \cup clipEmpty \cup fillEmpty => m \in converted)
                /\ (m \in converted /\ m \notin openFailed => SuffixOf(m) \in files)

C3_OneConsolidatedSummary ==
    pc = "done" /\ Found =>
        IF \E l \in Layers : invalid[l] > 0
        THEN /\ Cardinality(Summaries) = 1
             /\ messages[Len(messages)].text = SummaryText
             /\ \A l \in Layers :
                    invalid[l] > 0 => CategoryOf(l) \in Range(messages[Len(messages)].arg)
        ELSE Summaries = {}

\* C4: every layer for which clipToBoard returned the empty string has a
\* diagnostic, is not converted and has no file; the outline layer included.
C4_ClipEmptyIsEmptyLayer ==
    \A l \in clipEmpty :
        /\ \E i \in DOMAIN messages :
                messages[i].layer = l /\ messages[i].text \in ClipEmptyTexts
        /\ l \notin converted
        /\ SuffixOf(l) \notin files

\* C5: every layer whose file could not be opened has exactly one diagnostic
\* naming the layer and the path and has no file; when the export has ended
\* every layer has been rendered, and a nonzero count of that layer is named
\* by the consolidated diagnostic.
C5_SaveFailureIsNonFatal ==
    \A l \in openFailed :
        /\ Cardinality({i \in DOMAIN messages :
                            /\ messages[i].text = SaveFailedText
                            /\ messages[i].layer = l
                            /\ messages[i].arg = SuffixOf(l)}) = 1
        /\ SuffixOf(l) \notin files
        /\ pc = "done" =>
            /\ LayersOf(boardLayers) \subseteq rendered
            /\ invalid[l] > 0 =>
                    \E i \in Summaries : CategoryOf(l) \in Range(messages[i].arg)

-----------------------------------------------------------------------------
(* The render-retry loop of clipToBoard, lines 708-743 *)

\* the retry bound of line 735
MaxTries == 5

\* the pixel buffers a render can produce; 0 is the QImage not yet assigned
Images == 1..NumImages

\* lines 695-706: the hex MD5 digest of the PNG encoding of the image
imageToHash(img) == <<"md5", img>>

\* the test of line 728 taken against the previous render only
containsPrevious(map, h) == h = hash

\* line 728: QHash::contains
contains(map, h) == h \in DOMAIN map

\* line 734: QHash::insert
insert(map, h, img) == [k \in DOMAIN map \cup {h} |-> IF k = h THEN img ELSE map[k]]

\* the test of line 735 off by one
tooManyTriesLate(c) == c > MaxTries

\* line 735
tooManyTries(c) == c >= MaxTries

\* exportToGerber is not running
IdleExport ==
    /\ pc = "idle"
    /\ board = "given"
    /\ boardLayers = 2
    /\ displayMessageBoxes = FALSE
    /\ messages = <<>>
    /\ files = {}
    /\ rendered = {}
    /\ emptyRenders = {}
    /\ clipEmpty = {}
    /\ converted = {}
    /\ invalid = [l \in Layers |-> 0]
    /\ openFailed = {}
    /\ fillEmpty = {}
    /\ clipStrings = [l \in Layers |-> NotCalled]
    /\ visibleItems = Items
    /\ hiddenInRender = [l \in Layers |-> {}]
    /\ copperInvalidCount = 0
    /\ maskInvalidCount = 0
    /\ pasteMaskInvalidCount = 0
    /\ silkInvalidCount = 0
    /\ outlineInvalidCount = 0
    /\ maskBottom = ""
    /\ maskTop = ""
    /\ faults = 0

\* the variables the loop does not touch
notRetry == <<varsExport, varsClip, varsMount, varsMore>>

\* lines 708-710
InitRetry ==
    /\ IdleExport
    /\ IdleClip
    /\ IdleMount
    /\ IdleMore
    /\ pcRetry = "loop"
    /\ hashMap = [h \in {} |-> 0]
    /\ counter = 0
    /\ hash = <<>>
    /\ image = 0
    /\ renders = <<>>

\* lines 716-741: one pass of the loop; tempImage is what the renderer produced
RenderAndHash ==
    /\ pcRetry = "loop"
    /\ UNCHANGED notRetry
    /\ \E tempImage \in Images :
        LET h == imageToHash(tempImage)
        IN /\ renders' = Append(renders, tempImage)
           /\ hash' = h
           /\ IF contains(hashMap, h)
              THEN /\ pcRetry' = "chosen"
                   /\ UNCHANGED <<hashMap, counter>>
              ELSE /\ hashMap' = insert(hashMap, h, tempImage)
                   /\ IF tooManyTries(counter)
                      THEN /\ pcRetry' = "chosen"
                           /\ counter' = counter
                      ELSE /\ pcRetry' = "loop"
                           /\ counter' = counter + 1
    /\ image' = image

\* line 743 taking the image of the first render in place of the one stored
\* under the last hash
ChooseFirstImage ==
    /\ pcRetry = "chosen"
    /\ UNCHANGED notRetry
    /\ image' = renders[1]
    /\ pcRetry' = "traced"
    /\ UNCHANGED <<hashMap, counter, hash, renders>>

\* line 743: QHash::value
ChooseImage ==
    /\ pcRetry = "chosen"
    /\ UNCHANGED notRetry
    /\ image' = IF hash \in DOMAIN hashMap THEN hashMap[hash] ELSE 0
    /\ pcRetry' = "traced"
    /\ UNCHANGED <<hashMap, counter, hash, renders>>

NextRetry ==
    \/ RenderAndHash
    \/ ChooseImage

SpecRetry == InitRetry /\ [][NextRetry]_vars

\* the k-th render has the hash of an earlier render of the loop
HashRepeats(k) ==
    \E j \in 1..(k - 1) : imageToHash(renders[j]) = imageToHash(renders[k])

C7_BoundedRetries ==
    /\ Len(renders) <= MaxTries + 1
    /\ counter <= MaxTries
    /\ pcRetry = "loop" => Len(renders) = counter
    /\ pcRetry \in {"chosen", "traced"} => Len(renders) >= 2

\* every render differs from all earlier ones and the loop gives up
C7_Witness ==
    /\ pcRetry = "traced"
    /\ Len(renders) = MaxTries + 1
    /\ \A k \in 1..Len(renders) : ~HashRepeats(k)

\* the pixel buffer a render without the renderer's gaps gives (lines 712-715)
correctRender == 1

\* the number of renders so far that gave this image
Occurrences(img) == Cardinality({k \in DOMAIN renders : renders[k] = img})

\* C17: the loop can accept an image that is not the correct render.  When the
\* loop has stopped on a render that repeats an earlier one and is not the
\* correct render, the image it uses is that corrupted render, and the
\* correct render has occurred once at most; it may have occurred once
C17_RepeatedCorruptionAccepted ==
    /\ pcRetry = "traced"
    /\ HashRepeats(Len(renders))
    /\ renders[Len(renders)] # correctRender
    => /\ image = renders[Len(renders)]
       /\ image # correctRender
       /\ Occurrences(image) = 2
       /\ Occurrences(correctRender) <= 1

\* the correct render came first, then the same corrupted render twice, and
\* the loop has stopped within its bound and uses the corrupted image
C17_Witness ==
    /\ pcRetry = "traced"
    /\ Len(renders) = 3
    /\ Len(renders) <= MaxTries + 1
    /\ renders[1] = correctRender
    /\ renders[2] # correctRender
    /\ renders[3] = renders[2]
    /\ image = renders[2]

-----------------------------------------------------------------------------
(* Vector documents.                                                       *)
(*                                                                         *)
(* A document is the sequence of its leaf elements in document order; the  *)
(* groups above a leaf are kept as what the code reads from them: whether  *)
(* a transform on the leaf or an ancestor is scaling, and the partID       *)
(* attributes of the ancestors, innermost first.  key is the identity of   *)
(* the DOM node.  Lengths are in tenths of a pixel of the target           *)
(* resolution.                                                             *)

NoBounds == [left |-> 0, top |-> 0, right |-> 0, bottom |-> 0]

Element(tag, id) ==
    [key |-> 0, tag |-> tag, id |-> id,
     rx |-> "", ry |-> "",          \* the rx and ry attributes, "" when absent
     dash |-> "",                   \* stroke-dasharray, "" when absent
     sw |-> 0,                      \* stroke-width (toDouble of an absent attribute is 0)
     r |-> 0, cx |-> 0, cy |-> 0,   \* circle geometry
     d |-> <<>>,                    \* path data, a sequence of tokens
     scaling |-> FALSE,             \* a transform on the element or an ancestor isScaling()
     partIDs |-> <<>>,              \* partID attributes of the ancestors, innermost first
     bounds |-> NoBounds,           \* what the renderer reports for a non-circle
     hit |-> FALSE]                 \* the element's pixels overlap the clip mask's

\* FSvgRenderer::NonConnectorName occurs in the id (line 398)
containsNonConnectorName(id) == id \in {"nonconn0", "nonconn1"}

\* tokens of path data: an absolute move, a relative move, a line command
\* with its coordinates, a curve command, a close marker (z or Z), whitespace
Tokens == {"M", "m", "L", "C", "z", " "}

IsMove(t) == t \in {"M", "m"}
IsClose(t) == t = "z"
IsSpace(t) == t = " "

RECURSIVE trimLeft(_)
trimLeft(str) == IF str # <<>> /\ IsSpace(Head(str)) THEN trimLeft(Tail(str)) ELSE str

RECURSIVE trimRight(_)
trimRight(str) ==
    IF str # <<>> /\ IsSpace(str[Len(str)])
    THEN trimRight(SubSeq(str, 1, Len(str) - 1)) ELSE str

\* QString::trimmed
trimmed(str) == trimRight(trimLeft(str))

\* QString::split("z", Qt::SkipEmptyParts, Qt::CaseInsensitive): cur is the
\* part being read
RECURSIVE splitZ(_, _)
splitZ(str, cur) ==
    IF str = <<>>
    THEN IF cur = <<>> THEN <<>> ELSE <<cur>>
    ELSE IF IsClose(Head(str))
         THEN (IF cur = <<>> THEN <<>> ELSE <<cur>>) \o splitZ(Tail(str), <<>>)
         ELSE splitZ(Tail(str), Append(cur, Head(str)))

split(str) == splitZ(str, <<>>)

CountZ(str) == Cardinality({i \in DOMAIN str : IsClose(str[i])})

\* the regular expression AaCc: the data holds a curve command
AaCc(str) == \E i \in DOMAIN str : str[i] = "C"

\* the regular expression MultipleZs: the data holds more than one close marker
MultipleZs(str) == CountZ(str) >= 2

\* the regular expression "^(?!none).*$" of lines 440-450
notNone(value) == value # "none"

\* QString::startsWith("m", Qt::CaseInsensitive)
startsWithMove(str) == str # <<>> /\ IsMove(str[1])

\* QString::endsWith("z", Qt::CaseInsensitive)
endsWithZ(str) == str # <<>> /\ IsClose(str[Len(str)])

\* the first match of the regular expression MFinder: the first move command
\* of the data with its coordinates; <<>> when there is none
RECURSIVE MFinder(_)
MFinder(str) ==
    IF str = <<>> THEN <<>>
    ELSE IF IsMove(Head(str)) THEN <<Head(str)>> ELSE MFinder(Tail(str))

\* the element has the attribute; every element has the attribute ""
hasAttribute(e, attName) ==
    CASE attName = "" -> TRUE
      [] attName = "rx" -> e.rx # ""
      [] attName = "ry" -> e.ry # ""
      [] attName = "stroke-dasharray" -> e.dash # ""
      [] attName = "d" -> e.d # <<>>

\* the attribute's value matches the regular expression; "" is the empty
\* regular expression of the calls that test no content
matches(e, attName, matchContent) ==
    CASE matchContent = "" -> TRUE
      [] matchContent = "^(?!none).*$" -> notNone(e.dash)
      [] matchContent = "AaCc" -> AaCc(e.d)
      [] matchContent = "MultipleZs" -> MultipleZs(e.d)

\* TextUtils::squashElement(doc, elementName, attName, matchContent): every
\* element named elementName whose attribute attName is present and matches
\* is retagged "g", id and children kept; the result tells whether any was
squashElement(doc, elementName, attName, matchContent) ==
    LET squashed(e) == /\ e.tag = elementName
                       /\ hasAttribute(e, attName)
                       /\ matches(e, attName, matchContent)
    IN [doc |-> [i \in DOMAIN doc |->
                    IF squashed(doc[i]) THEN [doc[i] EXCEPT !.tag = "g"] ELSE doc[i]],
        result |-> \E i \in DOMAIN doc : squashed(doc[i])]

\* a key no node of the document has
freshKey(doc) == 1 + Len(doc)

\* GraphicsUtils::StandardFritzingDPI and GraphicsUtils::SVGDPI
StandardFritzingDPI == 1000
SVGDPI == 90

\* lines 393-408 without the test for the drill layer
justHolesAlways(doc, why) ==
    [i \in DOMAIN doc |->
        IF doc[i].tag = "circle" /\ containsNonConnectorName(doc[i].id) /\ doc[i].sw = 0
        THEN [doc[i] EXCEPT !.tag = "g"] ELSE doc[i]]

\* lines 393-408: outside the drill layer a circle that is a non-connector
\* with zero stroke width (a plain hole) is retagged "g"
justHoles(doc, why) ==
    IF why # "ForDrill"
    THEN [i \in DOMAIN doc |->
            IF doc[i].tag = "circle" /\ containsNonConnectorName(doc[i].id) /\ doc[i].sw = 0
            THEN [doc[i] EXCEPT !.tag = "g"] ELSE doc[i]]
    ELSE doc

\* lines 1121-1141: the connector of treatAs that a path with this id under
\* these ancestors stands for; {} when there is none
RECURSIVE findConnector(_, _, _)
findConnector(treatAs, id, pids) ==
    IF pids = <<>> THEN {}
    ELSE IF Head(pids) = "" THEN findConnector(treatAs, id, Tail(pids))
    ELSE LET connectorItems == {c \in treatAs : c.attachedToID = Head(pids)}
             candidates == {c \in connectorItems : c.svgId = id}
         IN IF connectorItems = {} THEN {}
            ELSE IF candidates # {} THEN {CHOOSE c \in candidates : TRUE}
            ELSE findConnector(treatAs, id, Tail(pids))

\* lines 1148-1162 with the connector's radius and stroke width passed on as
\* they are
donutCirclePassthrough(doc, path, connectorItem) ==
    [Element("circle", path.id) EXCEPT
        !.key = freshKey(doc),
        !.cx = (path.bounds.left + path.bounds.right) \div 2,
        !.cy = (path.bounds.top + path.bounds.bottom) \div 2,
        !.r = connectorItem.radius,
        !.sw = connectorItem.strokeWidth,
        !.scaling = path.scaling,
        !.partIDs = path.partIDs]

\* lines 1148-1162: the circle made for a path and its connector
donutCircle(doc, path, connectorItem) ==
    [Element("circle", path.id) EXCEPT
        !.key = freshKey(doc),
        !.cx = (path.bounds.left + path.bounds.right) \div 2,
        !.cy = (path.bounds.top + path.bounds.bottom) \div 2,
        !.r = (connectorItem.radius * StandardFritzingDPI) \div SVGDPI,
        !.sw = (connectorItem.strokeWidth * StandardFritzingDPI) \div SVGDPI,
        !.scaling = path.scaling,
        !.partIDs = path.partIDs]

\* lines 1098-1166, from the n-th node of the document on
RECURSIVE handleDonutsFrom(_, _, _)
handleDonutsFrom(doc, treatAs, n) ==
    IF n > Len(doc) THEN doc
    ELSE LET path == doc[n]
             ids == {c.svgId : c \in treatAs}
             found == IF path.tag = "path" /\ path.id # "" /\ path.id \in ids
                      THEN findConnector(treatAs, path.id, path.partIDs) ELSE {}
         IN IF found = {}
            THEN handleDonutsFrom(doc, treatAs, n + 1)
            ELSE LET connectorItem == CHOOSE c \in found : TRUE
                     circle == donutCircle(doc, path, connectorItem)
                 IN handleDonutsFrom(SubSeq(doc, 1, n - 1)
                                        \o <<circle, [path EXCEPT !.id = ""]>>
                                        \o SubSeq(doc, n + 1, Len(doc)),
                                     treatAs, n + 2)

\* lines 1098-1166
handleDonuts(doc, treatAs) ==
    IF treatAs # {} THEN handleDonutsFrom(doc, treatAs, 1) ELSE doc

\* line 914 for every subpath of one path
subpathsOK(path) == \A i \in DOMAIN split(path.d) : startsWithMove(trimmed(split(path.d)[i]))

\* line 909
hasMultipleContours(e) == e.tag = "path" /\ MultipleZs(trimmed(e.d))

\* lines 940-956 with every sibling closed, whatever the original data ends with
RECURSIVE newPathsClosed(_, _, _, _, _)
newPathsClosed(path, subpaths, i, priorM, acc) ==
    IF i > Len(subpaths) THEN acc
    ELSE LET d0 == trimmed(subpaths[i]) \o <<"z">>
             match == MFinder(d0)
             d == IF d0 # <<>> /\ d0[1] = "m" THEN priorM \o d0 ELSE d0
             nextM == IF match = <<"M">> THEN match \o <<" ">>
                      ELSE priorM \o match \o <<" ">>
             newPath == [path EXCEPT !.d = d, !.key = 0]
         IN newPathsClosed(path, subpaths, i + 1, nextM, Append(acc, newPath))

\* lines 940-956: the siblings made for subpaths i.. of path, appended to acc
RECURSIVE newPaths(_, _, _, _, _)
newPaths(path, subpaths, i, priorM, acc) ==
    IF i > Len(subpaths) THEN acc
    ELSE LET originalPath == trimmed(path.d)
             z == IF i < Len(subpaths) \/ endsWithZ(originalPath) THEN <<"z">> ELSE <<>>
             d0 == trimmed(subpaths[i]) \o z
             match == MFinder(d0)
             d == IF d0 # <<>> /\ d0[1] = "m" THEN priorM \o d0 ELSE d0
             nextM == IF match = <<"M">> THEN match \o <<" ">>
                      ELSE priorM \o match \o <<" ">>
             newPath == [path EXCEPT !.d = d, !.key = 0]
         IN newPaths(path, subpaths, i + 1, nextM, Append(acc, newPath))

\* lines 932-959, from the p-th node of the document on; the node list is
\* live, so the appended siblings are visited as well
RECURSIVE splitContoursFrom(_, _)
splitContoursFrom(doc, p) ==
    IF p > Len(doc) THEN doc
    ELSE IF ~hasMultipleContours(doc[p]) THEN splitContoursFrom(doc, p + 1)
    ELSE LET path == doc[p]
             subpaths == split(path.d)
             priorM == MFinder(trimmed(subpaths[1])) \o <<" ">>
             siblings == newPaths(path, subpaths, 2, priorM, <<>>)
             keyed == [i \in DOMAIN siblings |->
                            [siblings[i] EXCEPT !.key = Len(doc) + i]]
             rewritten == [path EXCEPT !.d = subpaths[1] \o <<"z">>]
         IN splitContoursFrom([doc EXCEPT ![p] = rewritten] \o keyed, p + 1)

\* lines 899-962 with the split made although a subpath lacks its move
dealWithMultipleContoursAnyway(doc) ==
    LET multiple == \E p \in DOMAIN doc : hasMultipleContours(doc[p])
        contoursOK == \A p \in DOMAIN doc : hasMultipleContours(doc[p]) => subpathsOK(doc[p])
        outOfRange == \E p \in DOMAIN doc : hasMultipleContours(doc[p]) /\ split(doc[p].d) = <<>>
    IN IF ~multiple
       THEN [doc |-> doc, result |-> FALSE, message |-> FALSE, outOfRange |-> FALSE]
       ELSE IF outOfRange
       THEN [doc |-> doc, result |-> FALSE, message |-> FALSE, outOfRange |-> TRUE]
       ELSE [doc |-> splitContoursFrom(doc, 1), result |-> contoursOK,
             message |-> ~contoursOK, outOfRange |-> FALSE]

\* lines 899-962: the document left behind, the value returned and whether
\* the malformed-cutout diagnostic is displayed.  For a path whose data holds
\* close markers and nothing else the list of subpaths is empty and line 938
\* reads its first entry: outOfRange, and the document is left as it was
dealWithMultipleContours(doc) ==
    LET multiple == \E p \in DOMAIN doc : hasMultipleContours(doc[p])
        contoursOK == \A p \in DOMAIN doc : hasMultipleContours(doc[p]) => subpathsOK(doc[p])
        outOfRange == \E p \in DOMAIN doc : hasMultipleContours(doc[p]) /\ split(doc[p].d) = <<>>
    IN IF ~multiple
       THEN [doc |-> doc, result |-> FALSE, message |-> FALSE, outOfRange |-> FALSE]
       ELSE IF ~contoursOK
       THEN [doc |-> doc, result |-> FALSE, message |-> TRUE, outOfRange |-> FALSE]
       ELSE IF outOfRange
       THEN [doc |-> doc, result |-> FALSE, message |-> FALSE, outOfRange |-> TRUE]
       ELSE [doc |-> splitContoursFrom(doc, 1), result |-> TRUE, message |-> FALSE,
             outOfRange |-> FALSE]

\* lines 421-487 without the squash of line 435
squashNoRy(doc) ==
    LET s1 == squashElement(doc, "text", "", "")
        s2 == squashElement(s1.doc, "ellipse", "", "")
        s3 == squashElement(s2.doc, "rect", "rx", "")
        s5 == squashElement(s3.doc, "rect", "stroke-dasharray", "^(?!none).*$")
        s6 == squashElement(s5.doc, "circle", "stroke-dasharray", "^(?!none).*$")
        s7 == squashElement(s6.doc, "line", "stroke-dasharray", "^(?!none).*$")
        s8 == squashElement(s7.doc, "path", "d", "AaCc")
        s9 == squashElement(s8.doc, "path", "d", "MultipleZs")
        s10 == squashElement(s9.doc, "image", "", "")
        scaled(e) == e.tag = "path" /\ e.scaling
    IN [doc |-> [i \in DOMAIN s10.doc |->
                    IF scaled(s10.doc[i]) THEN [s10.doc[i] EXCEPT !.tag = "g"]
                    ELSE s10.doc[i]],
        anyConverted |-> \/ s1.result \/ s2.result \/ s3.result \/ s5.result
                         \/ s6.result \/ s7.result \/ s8.result \/ s9.result \/ s10.result
                         \/ \E i \in DOMAIN s10.doc : scaled(s10.doc[i])]

\* lines 421-487 without the squash of line 460
squashNoMultipleZs(doc) ==
    LET s1 == squashElement(doc, "text", "", "")
        s2 == squashElement(s1.doc, "ellipse", "", "")
        s3 == squashElement(s2.doc, "rect", "rx", "")
        s4 == squashElement(s3.doc, "rect", "ry", "")
        s5 == squashElement(s4.doc, "rect", "stroke-dasharray", "^(?!none).*$")
        s6 == squashElement(s5.doc, "circle", "stroke-dasharray", "^(?!none).*$")
        s7 == squashElement(s6.doc, "line", "stroke-dasharray", "^(?!none).*$")
        s8 == squashElement(s7.doc, "path", "d", "AaCc")
        s10 == squashElement(s8.doc, "image", "", "")
        scaled(e) == e.tag = "path" /\ e.scaling
    IN [doc |-> [i \in DOMAIN s10.doc |->
                    IF scaled(s10.doc[i]) THEN [s10.doc[i] EXCEPT !.tag = "g"]
                    ELSE s10.doc[i]],
        anyConverted |-> \/ s1.result \/ s2.result \/ s3.result \/ s4.result \/ s5.result
                         \/ s6.result \/ s7.result \/ s8.result \/ s10.result
                         \/ \E i \in DOMAIN s10.doc : scaled(s10.doc[i])]

\* lines 421-487 with anyConverted left as line 421 sets it
squashUnflagged(doc) == [squashNoMultipleZs(doc) EXCEPT !.anyConverted = FALSE]

\* lines 421-487: the ten squashes in the code's order, then the paths under
\* a scaling transform; the document left behind and the conversion flag
squash(doc) ==
    LET s1 == squashElement(doc, "text", "", "")
        s2 == squashElement(s1.doc, "ellipse", "", "")
        s3 == squashElement(s2.doc, "rect", "rx", "")
        s4 == squashElement(s3.doc, "rect", "ry", "")
        s5 == squashElement(s4.doc, "rect", "stroke-dasharray", "^(?!none).*$")
        s6 == squashElement(s5.doc, "circle", "stroke-dasharray", "^(?!none).*$")
        s7 == squashElement(s6.doc, "line", "stroke-dasharray", "^(?!none).*$")
        s8 == squashElement(s7.doc, "path", "d", "AaCc")
        s9 == squashElement(s8.doc, "path", "d", "MultipleZs")
        s10 == squashElement(s9.doc, "image", "", "")
        scaled(e) == e.tag = "path" /\ e.scaling
    IN [doc |-> [i \in DOMAIN s10.doc |->
                    IF scaled(s10.doc[i]) THEN [s10.doc[i] EXCEPT !.tag = "g"]
                    ELSE s10.doc[i]],
        anyConverted |-> \/ s1.result \/ s2.result \/ s3.result \/ s4.result \/ s5.result
                         \/ s6.result \/ s7.result \/ s8.result \/ s9.result \/ s10.result
                         \/ \E i \in DOMAIN s10.doc : scaled(s10.doc[i])]

\* lines 499-506: the board rectangle at the target resolution, moved to the
\* origin by line 373
sourceRes == [left |-> 0, top |-> 0, right |-> 1000, bottom |-> 1000]

\* line 541 (0.1 pixel)
unknownMargin == 1

\* QSvgRenderer::boundsOnElement mapped by transformForElement (lines 537-540):
\* a circle's bounds hold its stroke, an empty container has none
boundsOnElement(e) ==
    IF e.tag = "g" THEN NoBounds
    ELSE IF e.tag = "circle"
    THEN [left |-> e.cx - e.r - e.sw \div 2, top |-> e.cy - e.r - e.sw \div 2,
          right |-> e.cx + e.r + e.sw \div 2, bottom |-> e.cy + e.r + e.sw \div 2]
    ELSE e.bounds

\* lines 542 and 580 with bounds on the margin taken as out of bounds
outOfBoundsOnMargin(mBounds) ==
    \/ mBounds.left <= sourceRes.left - unknownMargin
    \/ mBounds.top <= sourceRes.top - unknownMargin
    \/ mBounds.right >= sourceRes.right + unknownMargin
    \/ mBounds.bottom >= sourceRes.bottom + unknownMargin

\* lines 542 and 580
outOfBounds(mBounds) ==
    \/ mBounds.left < sourceRes.left - unknownMargin
    \/ mBounds.top < sourceRes.top - unknownMargin
    \/ mBounds.right > sourceRes.right + unknownMargin
    \/ mBounds.bottom > sourceRes.bottom + unknownMargin

\* TextUtils::collectLeaves (lines 489-497): the leaves in document order,
\* each given its index as id
collectLeaves(doc) == [i \in DOMAIN doc |-> [doc[i] EXCEPT !.id = ToString(i - 1)]]

\* lines 534-554: the keys of the leaves Phase A retags
clippedByBounds(doc, why) ==
    IF why # "ForOutline"
    THEN {doc[i].key : i \in {j \in DOMAIN doc : outOfBounds(boundsOnElement(doc[j]))}}
    ELSE {}

\* lines 557-593 without the test of line 580: every new hole is kept
RECURSIVE insertHolesUntested(_, _, _, _)
insertHolesUntested(doc, possibleHoles, n, ix) ==
    IF n > Len(doc) THEN <<>>
    ELSE IF doc[n].key \notin possibleHoles
    THEN <<doc[n]>> \o insertHolesUntested(doc, possibleHoles, n + 1, ix)
    ELSE LET element == doc[n]
             kept == [element EXCEPT !.key = Len(doc) + 1 + ix,
                                     !.id = "__" \o ToString(ix) \o "__",
                                     !.sw = 20,
                                     !.r = element.r - element.sw \div 2 + 40,
                                     !.tag = "circle"]
         IN <<element, kept>> \o insertHolesUntested(doc, possibleHoles, n + 1, ix + 1)

\* lines 557-593: after every clipped circle (possibleHoles) a plain hole of
\* its inner radius is inserted; a hole still out of bounds is removed again,
\* a kept one is enlarged.  n is the node reached, ix the next hole's number
RECURSIVE insertHoles(_, _, _, _)
insertHoles(doc, possibleHoles, n, ix) ==
    IF n > Len(doc) THEN <<>>
    ELSE IF doc[n].key \notin possibleHoles
    THEN <<doc[n]>> \o insertHoles(doc, possibleHoles, n + 1, ix)
    ELSE LET element == doc[n]
             newElement == [element EXCEPT !.key = Len(doc) + 1 + ix,
                                           !.id = "__" \o ToString(ix) \o "__",
                                           !.sw = 0,
                                           !.r = element.r - element.sw \div 2,
                                           !.tag = "circle"]
             kept == [newElement EXCEPT !.r = @ + 40, !.sw = 20]
         IN <<element>>
            \o (IF outOfBounds(boundsOnElement(newElement)) THEN <<>> ELSE <<kept>>)
            \o insertHoles(doc, possibleHoles, n + 1, ix + 1)

\* lines 534-593
phaseA(doc, why) ==
    LET clipped == clippedByBounds(doc, why)
        possibleHoles == {doc[i].key : i \in {j \in DOMAIN doc :
                                doc[j].key \in clipped /\ doc[j].tag = "circle"}}
        retagged == [i \in DOMAIN doc |->
                        IF doc[i].key \in clipped THEN [doc[i] EXCEPT !.tag = "g"] ELSE doc[i]]
    IN [doc |-> insertHoles(retagged, possibleHoles, 1, 0), anyClipped |-> clipped # {}]

\* lines 595-631: with a clip image, every collected leaf not yet retagged
\* whose pixels collide with the clip image's is retagged
phaseB(doc, leaves, clip) ==
    LET collide(e) == /\ clip # ""
                      /\ \E i \in DOMAIN leaves : leaves[i] = e.key
                      /\ e.tag # "g"
                      /\ e.hit
    IN [doc |-> [i \in DOMAIN doc |->
                    IF collide(doc[i]) THEN [doc[i] EXCEPT !.tag = "g"] ELSE doc[i]],
        anyClipped |-> \E i \in DOMAIN doc : collide(doc[i])]

\* lines 639-647 leaving document 2 as it is
removeNothing(doc1, doc2, leaves) == doc2

\* lines 639-647: what document 1 still draws is taken out of document 2
removeConvertible(doc1, doc2, leaves) ==
    LET convertible == {doc1[i].key : i \in {j \in DOMAIN doc1 :
                            /\ \E l \in DOMAIN leaves : leaves[l] = doc1[j].key
                            /\ doc1[j].tag # "g"}}
    IN [i \in DOMAIN doc2 |->
            IF doc2[i].key \in convertible THEN [doc2[i] EXCEPT !.tag = "g"] ELSE doc2[i]]

\* lines 765-766: n traced paths put before the closing tag of the string,
\* that is after its last element.  For the outline the paths are merged by
\* GroundPlaneGenerator::mergeSVGs (line 846), taken to put them there too
appendTraced(doc, n) ==
    doc \o [i \in 1..n |-> [Element("path", "") EXCEPT !.key = 0 - i, !.d = <<"M", "L">>]]

\* QDomElement::elementsByTagName: the positions of the elements with this
\* tag from position n on, in document order.  The list is not made again
\* when an element is retagged, so the loops of lines 677-688 go through
\* the elements that were paths at line 671
RECURSIVE elementsByTagName(_, _, _)
elementsByTagName(doc, tagName, n) ==
    IF n > Len(doc) THEN <<>>
    ELSE (IF doc[n].tag = tagName THEN <<n>> ELSE <<>>) \o elementsByTagName(doc, tagName, n + 1)

\* lines 677-680: every path of the list is retagged
RECURSIVE squashPaths(_, _, _)
squashPaths(doc, nodeList, p) ==
    IF p > Len(nodeList) THEN doc
    ELSE squashPaths([doc EXCEPT ![nodeList[p]].tag = "g"], nodeList, p + 1)

\* lines 681-688 leaving the path of the call before as it is
RECURSIVE mergeEachKeeping(_, _, _, _)
mergeEachKeeping(doc, nodeList, p, calls) ==
    IF p > Len(nodeList) THEN [doc |-> doc, calls |-> calls]
    ELSE LET drawn == [doc EXCEPT ![nodeList[p]].tag = "path"]
         IN mergeEachKeeping(drawn, nodeList, p + 1,
                             Append(calls, [ix |-> p - 1, document |-> drawn]))

\* lines 681-688: one path after the other is made a path again, the one
\* before it retagged, and mergeOutlineElement called
RECURSIVE mergeEach(_, _, _, _)
mergeEach(doc, nodeList, p, calls) ==
    IF p > Len(nodeList) THEN [doc |-> doc, calls |-> calls]
    ELSE LET drawn == [doc EXCEPT ![nodeList[p]].tag = "path"]
             alone == IF p > 1 THEN [drawn EXCEPT ![nodeList[p - 1]].tag = "g"] ELSE drawn
         IN mergeEach(alone, nodeList, p + 1,
                      Append(calls, [ix |-> p - 1, document |-> alone]))

\* lines 671-691: document 2 when the loop is over and the calls of
\* mergeOutlineElement
mergeOutline(doc2) ==
    LET nodeList == elementsByTagName(doc2, "path", 1)
    IN IF nodeList = <<>>
       THEN [doc |-> doc2, calls |-> <<[ix |-> 0, document |-> doc2]>>]
       ELSE mergeEach(squashPaths(doc2, nodeList, 1), nodeList, 1, <<>>)

\* lines 671-691: the number of calls of mergeOutlineElement
mergeCalls(doc2) ==
    LET paths == {i \in DOMAIN doc2 : doc2[i].tag = "path"}
    IN IF paths = {} THEN 1 ELSE Cardinality(paths)

(***************************************************************************)
(* clipToBoard as a sequence of steps                                      *)
(***************************************************************************)

MaxLeaves == 2

\* within the board, and beyond its edge by more than the margin
Inside == [left |-> 100, top |-> 100, right |-> 900, bottom |-> 900]
Outside == [left |-> -5, top |-> 100, right |-> 900, bottom |-> 900]

\* a connector to be drawn as a circle: the part it is attached to, its id
\* in the part's image, its radius and stroke width in pixels
Connector == [attachedToID |-> "7", svgId |-> "connector1pin", radius |-> 18, strokeWidth |-> 9]

\* the elements the Gerber conversion takes as they are
SafeElements ==
    { [Element("rect", "rect1") EXCEPT !.bounds = Inside],
      [Element("rect", "rect2") EXCEPT !.bounds = Inside, !.dash = "none"],
      [Element("line", "line1") EXCEPT !.bounds = Inside],
      [Element("circle", "connector0pin") EXCEPT !.cx = 500, !.cy = 500, !.r = 50, !.sw = 20],
      [Element("path", "path1") EXCEPT !.bounds = Inside, !.d = <<"M", "L", "z">>],
      [Element("path", "connector1pin") EXCEPT !.bounds = Inside, !.d = <<"M", "L", "z">>,
                                               !.partIDs = <<"", "7">>] }

\* a plain hole: a non-connector circle without a stroke
Holes ==
    { [Element("circle", "nonconn0") EXCEPT !.cx = 500, !.cy = 500, !.r = 50] }

\* the elements the cleaning steps retag
UnsafeElements ==
    { [Element("text", "text1") EXCEPT !.bounds = Inside],
      [Element("ellipse", "ellipse1") EXCEPT !.bounds = Inside],
      [Element("image", "image1") EXCEPT !.bounds = Inside],
      [Element("rect", "rect3") EXCEPT !.bounds = Inside, !.rx = "2"],
      [Element("rect", "rect4") EXCEPT !.bounds = Inside, !.ry = "2"],
      [Element("rect", "rect5") EXCEPT !.bounds = Inside, !.dash = "4,2"],
      [Element("line", "line2") EXCEPT !.bounds = Inside, !.dash = "4,2"],
      [Element("circle", "connector2pin") EXCEPT !.cx = 500, !.cy = 500, !.r = 50, !.sw = 20,
                                                 !.dash = "4,2"],
      [Element("path", "path2") EXCEPT !.bounds = Inside, !.d = <<"M", "C", "z">>],
      [Element("path", "path3") EXCEPT !.bounds = Inside,
                                       !.d = <<"M", "L", "z", "M", "L", "z">>],
      [Element("path", "path4") EXCEPT !.bounds = Inside, !.d = <<"M", "L", "z">>,
                                       !.scaling = TRUE],
      [Element("path", "path5") EXCEPT !.bounds = Inside,
                                       !.d = <<"M", "L", "z", "L", "z">>] }

\* safe elements that reach over the board's edge or under the clip mask
ClippedElements ==
    { [Element("rect", "rect6") EXCEPT !.bounds = Outside],
      [Element("rect", "rect7") EXCEPT !.bounds = Inside, !.hit = TRUE],
      [Element("circle", "connector3pin") EXCEPT !.cx = 20, !.cy = 500, !.r = 50, !.sw = 20],
      [Element("circle", "connector4pin") EXCEPT !.cx = 45, !.cy = 500, !.r = 50, !.sw = 20] }

Palette == SafeElements \cup Holes \cup UnsafeElements \cup ClippedElements

\* the documents of up to MaxLeaves elements, every node with its own key
Documents ==
    UNION { { [i \in 1..n |-> [doc[i] EXCEPT !.key = i]] : doc \in [1..n -> Palette] }
            : n \in 0..MaxLeaves }

\* the calls of lines 139, 185, 216, 255, 288 and 322: the purpose, the clip
\* mask (the silk layers are clipped to the mask when that one is not empty)
\* and the connectors drawn as circles (none for the outline, line 138)
Calls ==
    { call \in [forWhy : {"ForCopper", "ForMask", "ForSilk", "ForOutline", "ForDrill"},
                clipString : {"", "mask"},
                treatAsCircle : {{}, {Connector}}] :
        /\ call.clipString # "" => call.forWhy = "ForSilk"
        /\ call.forWhy = "ForOutline" => call.treatAsCircle = {} }

\* the variables clipToBoard does not touch
notClip == <<varsRetry, varsMount, varsMore, pc, boardLayers, displayMessageBoxes, files, rendered,
             emptyRenders, clipEmpty, converted, invalid, openFailed, fillEmpty,
             clipStrings, visibleItems, hiddenInRender,
             copperInvalidCount, maskInvalidCount, pasteMaskInvalidCount,
             silkInvalidCount, outlineInvalidCount, maskBottom, maskTop, board, faults>>

\* the locals of clipToBoard on entry
ClipLocals ==
    /\ pcClip = "start"
    /\ svgOut = <<>>
    /\ domDocument1 = <<>>
    /\ domDocument2 = <<>>
    /\ leaves1 = <<>>
    /\ anyConverted = FALSE
    /\ anyClipped = FALSE
    /\ multipleContours = FALSE
    /\ rasterized = FALSE
    /\ traced = 0
    /\ merged = <<>>

\* a call of clipToBoard (line 377)
InitClip ==
    /\ IdleExport
    /\ IdleRetry
    /\ IdleMount
    /\ IdleMore
    /\ ClipLocals
    /\ \E call \in Calls :
          /\ forWhy = call.forWhy
          /\ clipString = call.clipString
          /\ treatAsCircle = call.treatAsCircle
    /\ parsable \in BOOLEAN
    /\ svgString \in Documents
    /\ parsable = FALSE => svgString = <<>>

\* lines 377-419: the early returns, the plain holes, the donuts, the
\* contours of the outline, and the copy that will be rasterized
Prepare ==
    /\ pcClip = "start"
    /\ UNCHANGED notClip
    /\ IF ~parsable \/ svgString = <<>>
       THEN /\ pcClip' = "returnedEmpty"
            /\ UNCHANGED <<domDocument1, domDocument2, multipleContours, messages>>
       ELSE LET holes == justHoles(svgString, forWhy)
                donuts == handleDonuts(holes, treatAsCircle)
                contours == IF forWhy = "ForOutline"
                            THEN dealWithMultipleContours(donuts)
                            ELSE [doc |-> donuts, result |-> FALSE, message |-> FALSE,
                                  outOfRange |-> FALSE]
            IN /\ pcClip' = IF contours.outOfRange THEN "outOfRange" ELSE "squash"
               /\ domDocument1' = contours.doc
               /\ multipleContours' = contours.result
               /\ domDocument2' = IF contours.outOfRange THEN <<>> ELSE contours.doc
               /\ messages' = IF contours.message
                              THEN displayMessage(IO, "cutouts", "", "contour").messages
                              ELSE messages
    /\ UNCHANGED <<forWhy, clipString, treatAsCircle, parsable, svgString, svgOut, leaves1,
                   anyConverted, anyClipped, rasterized, traced, merged>>

\* lines 421-487
Squash ==
    /\ pcClip = "squash"
    /\ UNCHANGED notClip
    /\ pcClip' = "bounds"
    /\ domDocument1' = squash(domDocument1).doc
    /\ anyConverted' = squash(domDocument1).anyConverted
    /\ UNCHANGED <<forWhy, clipString, treatAsCircle, parsable, svgString, svgOut,
                   domDocument2, leaves1, anyClipped, multipleContours, rasterized, traced, merged,
                   messages>>

\* lines 489-593: the leaves are collected, document 1 is written to
\* svgString, and the leaves out of the board's bounds are retagged
PhaseA ==
    /\ pcClip = "bounds"
    /\ UNCHANGED notClip
    /\ pcClip' = "mask"
    /\ LET collected == collectLeaves(domDocument1)
           a == phaseA(collected, forWhy)
       IN /\ leaves1' = [i \in DOMAIN collected |-> collected[i].key]
          /\ domDocument2' = collectLeaves(domDocument2)
          /\ svgOut' = collected
          /\ domDocument1' = a.doc
          /\ anyClipped' = a.anyClipped
          /\ anyConverted' = (anyConverted \/ a.anyClipped)
    /\ UNCHANGED <<forWhy, clipString, treatAsCircle, parsable, svgString,
                   multipleContours, rasterized, traced, merged, messages>>

\* lines 595-631
PhaseB ==
    /\ pcClip = "mask"
    /\ UNCHANGED notClip
    /\ pcClip' = "raster"
    /\ LET b == phaseB(domDocument1, leaves1, clipString)
       IN /\ domDocument1' = b.doc
          /\ anyClipped' = (anyClipped \/ b.anyClipped)
          /\ anyConverted' = (anyConverted \/ b.anyClipped)
    /\ UNCHANGED <<forWhy, clipString, treatAsCircle, parsable, svgString, svgOut,
                   domDocument2, leaves1, multipleContours, rasterized, traced, merged, messages>>

\* lines 633-785: document 1 is written again when anything was clipped;
\* when anything was converted document 2 is rendered and traced, and the
\* traced paths are put into the string returned.  On the outline a call of
\* mergeOutlineElement merges only when the scan found something (line 844)
Raster ==
    /\ pcClip = "raster"
    /\ UNCHANGED notClip
    /\ pcClip' = "returned"
    /\ rasterized' = anyConverted
    /\ IF anyConverted
       THEN LET removed == removeConvertible(domDocument1, domDocument2, leaves1)
            IN IF forWhy = "ForOutline"
               THEN /\ domDocument2' = mergeOutline(removed).doc
                    /\ merged' = mergeOutline(removed).calls
                    /\ traced' \in 0..mergeCalls(removed)
               ELSE /\ domDocument2' = removed
                    /\ merged' = <<>>
                    /\ traced' = 1
       ELSE UNCHANGED <<domDocument2, traced, merged>>
    /\ svgOut' = appendTraced(IF anyClipped THEN domDocument1 ELSE svgOut, traced')
    /\ UNCHANGED <<forWhy, clipString, treatAsCircle, parsable, svgString, domDocument1,
                   leaves1, anyConverted, anyClipped, multipleContours, messages>>

NextClip == Prepare \/ Squash \/ PhaseA \/ PhaseB \/ Raster

SpecClip == InitClip /\ [][NextClip]_vars

(***************************************************************************)
(* dealWithMultipleContours on the paths an outline can hold               *)
(***************************************************************************)

MaxLen == 6

\* path data of up to MaxLen tokens without curves
ContourTokens == {"M", "m", "L", "z", " "}
PathData == UNION { [1..n -> ContourTokens] : n \in 1..MaxLen }

\* one path, alone or before another element, as the outline and as copper
InitContours ==
    /\ IdleExport
    /\ IdleRetry
    /\ IdleMount
    /\ IdleMore
    /\ ClipLocals
    /\ forWhy \in {"ForOutline", "ForCopper"}
    /\ clipString = ""
    /\ treatAsCircle = {}
    /\ parsable = TRUE
    /\ \E d \in PathData :
       \E more \in {<<>>, <<[Element("rect", "rect1") EXCEPT !.key = 2, !.bounds = Inside]>>} :
          svgString = <<[Element("path", "outline") EXCEPT !.key = 1, !.d = d,
                                                           !.bounds = Inside]>> \o more

NextContours == Prepare \/ Squash

SpecContours == InitContours /\ [][NextContours]_vars

(***************************************************************************)
(* Properties of the cleaning steps                                        *)
(***************************************************************************)

noDashes(e) == e.dash \in {"", "none"}

\* the Gerber-safe set: a rect without rx, ry and dashes, a circle without
\* dashes, a straight single-contour path under no scaling transform
GerberSafe(e) ==
    \/ e.tag = "rect" /\ e.rx = "" /\ e.ry = "" /\ noDashes(e)
    \/ e.tag = "circle" /\ noDashes(e)
    \/ e.tag = "path" /\ ~AaCc(e.d) /\ CountZ(e.d) <= 1 /\ ~e.scaling

AllGerberSafe(doc) == doc # <<>> /\ \A i \in DOMAIN doc : GerberSafe(doc[i])

\* a circle that lines 393-408 take for a plain hole
PlainHole(e) == e.tag = "circle" /\ containsNonConnectorName(e.id) /\ e.sw = 0

\* the node of doc with this key
NodeOf(doc, key) == doc[CHOOSE i \in DOMAIN doc : doc[i].key = key]

\* the nodes of before whose tag is another in after
Retagged(before, after) ==
    {before[i].key : i \in {j \in DOMAIN before :
        \E a \in DOMAIN after : /\ after[a].key = before[j].key
                                /\ after[a].tag # before[j].tag}}

\* the cleaning steps are over, or the call has returned from a document
\* that went through them
Cleaned == pcClip \in {"bounds", "mask", "raster", "returned"}

\* C8 as stated: for a document of Gerber-safe elements only, the steps of
\* clipToBoard before the Phase A bounds test retag no element and leave
\* anyConverted false, and when nothing is clipped either nothing is
\* rasterized and no traced path is appended
C8_SafeDocumentUntouched ==
    AllGerberSafe(svgString) =>
        /\ pcClip = "bounds" => Retagged(svgString, domDocument1) = {} /\ ~anyConverted
        /\ pcClip = "returned" /\ ~anyClipped => ~rasterized /\ traced = 0

\* C8 as the code has it: for a document of Gerber-safe elements only, the
\* steps before the Phase A bounds test retag exactly the plain holes (the
\* non-connector circles of zero stroke width), and those on every layer but
\* the drill layer; anyConverted stays false, and when nothing is clipped
\* either nothing is rasterized and no traced path is appended
C8_SafeDocumentOnlyLosesHoles ==
    AllGerberSafe(svgString) =>
        /\ pcClip = "bounds" =>
              /\ Retagged(svgString, domDocument1) =
                    IF forWhy # "ForDrill"
                    THEN {svgString[i].key : i \in {j \in DOMAIN svgString :
                                                        PlainHole(svgString[j])}}
                    ELSE {}
              /\ \A k \in Retagged(svgString, domDocument1) :
                    NodeOf(domDocument1, k).tag = "g"
              /\ ~anyConverted
        /\ pcClip = "returned" /\ ~anyClipped => ~rasterized /\ traced = 0

\* a safe document with a plain hole has gone through a copper call, the
\* hole retagged, nothing clipped and nothing rasterized
C8_Witness ==
    /\ pcClip = "returned"
    /\ forWhy = "ForCopper"
    /\ AllGerberSafe(svgString)
    /\ Len(svgString) = 2
    /\ \E i \in DOMAIN svgString : PlainHole(svgString[i])
    /\ \E i \in DOMAIN svgString : ~PlainHole(svgString[i])
    /\ Cardinality(Retagged(svgString, domDocument1)) = 1
    /\ ~anyClipped
    /\ ~rasterized

\* a rect carrying rx or ry
Rounded(e) == e.tag = "rect" /\ (e.rx # "" \/ e.ry # "")

\* exactly one rounded rect among Gerber-safe elements
OneRoundedAmongSafe(doc) ==
    /\ Cardinality({i \in DOMAIN doc : Rounded(doc[i])}) = 1
    /\ \A i \in DOMAIN doc : Rounded(doc[i]) \/ GerberSafe(doc[i])

Paths(doc) == {i \in DOMAIN doc : doc[i].tag = "path"}

\* the path data ends with body
EndsWith(d, body) ==
    Len(d) >= Len(body) /\ SubSeq(d, Len(d) - Len(body) + 1, Len(d)) = body

\* the outline path dealWithMultipleContours was given
Outline0 == svgString[1]

\* C10 as stated: an outline path with k >= 1 close markers whose every
\* subpath starts with a move command is left as exactly k path elements, the
\* original holding the first subpath and one appended sibling per remaining
\* subpath, each closed, whether or not the data ends with a close marker
C10_KClosedPaths ==
    /\ pcClip \in {"squash", "outOfRange"}
    /\ forWhy = "ForOutline"
    /\ CountZ(Outline0.d) >= 1
    /\ split(Outline0.d) # <<>>
    /\ subpathsOK(Outline0)
    => /\ pcClip = "squash"
       /\ Cardinality(Paths(domDocument1)) = CountZ(Outline0.d)
       /\ domDocument1[1].key = Outline0.key
       /\ domDocument1[1].d = split(Outline0.d)[1] \o <<"z">>
       /\ \A i \in Paths(domDocument1) : endsWithZ(domDocument1[i].d)

\* C10 as the code has it.  A path whose data does not match MultipleZs is
\* left as it is.  A path that is split (its data matches MultipleZs and has
\* at least one non-empty piece between close markers, every piece starting
\* with a move command once trimmed) is left as one path element per piece:
\* the original holding the first piece and a close marker, and, appended
\* after the document's last element in the order of the pieces, one sibling
\* per remaining piece whose data ends with that piece trimmed; a sibling is
\* closed unless it is the last one and the trimmed original data does not
\* end with a close marker.  So k markers give k closed paths when the data
\* has k pieces and ends with a close marker, and k + 1 paths, the last one
\* open, when a piece follows the last of k markers that each end a piece.
\* The other elements are left as they were
C10_OnePathPerPiece ==
    pcClip = "squash" /\ forWhy = "ForOutline" =>
        LET d == Outline0.d
            pieces == split(d)
            n == Len(pieces)
            last == Len(svgString)
            closedEnd == endsWithZ(trimmed(d))
        IN /\ ~hasMultipleContours(Outline0) => domDocument1 = svgString
           /\ hasMultipleContours(Outline0) /\ subpathsOK(Outline0) /\ n >= 1 =>
                 /\ Cardinality(Paths(domDocument1)) = n
                 /\ Len(domDocument1) = last + n - 1
                 /\ domDocument1[1] = [Outline0 EXCEPT !.d = pieces[1] \o <<"z">>]
                 /\ \A i \in 2..last : domDocument1[i] = svgString[i]
                 /\ \A i \in 2..n :
                       LET sibling == domDocument1[last + i - 1]
                           open == i = n /\ ~closedEnd
                       IN /\ sibling.tag = "path"
                          /\ sibling.id = Outline0.id
                          /\ EndsWith(sibling.d, IF open THEN trimmed(pieces[i])
                                                 ELSE trimmed(pieces[i]) \o <<"z">>)
                          /\ endsWithZ(sibling.d) <=> ~open
                 /\ closedEnd /\ n = CountZ(d) =>
                       \A i \in Paths(domDocument1) : endsWithZ(domDocument1[i].d)
                 /\ ~closedEnd /\ n = CountZ(d) + 1 =>
                       ~endsWithZ(domDocument1[last + n - 1].d)

\* a path of two close markers followed by a third, open subpath has been
\* split into three paths, the last one open
C10_Witness ==
    /\ pcClip = "squash"
    /\ forWhy = "ForOutline"
    /\ hasMultipleContours(Outline0)
    /\ subpathsOK(Outline0)
    /\ CountZ(Outline0.d) = 2
    /\ ~endsWithZ(trimmed(Outline0.d))
    /\ Len(svgString) = 2
    /\ Cardinality(Paths(domDocument1)) = 3
    /\ ~endsWithZ(domDocument1[4].d)
    /\ endsWithZ(domDocument1[3].d)

\* a multi-contour path with a subpath that does not start with a move
Malformed(e) == hasMultipleContours(e) /\ ~subpathsOK(e)

\* the malformed-cutout diagnostic has been displayed
CutoutsMessage == \E i \in DOMAIN messages : messages[i].text = "cutouts"

\* the paths of after are the paths of before, each with the data it had
SamePaths(before, after) ==
    /\ Cardinality(Paths(after)) = Cardinality(Paths(before))
    /\ \A i \in Paths(before) :
          \E j \in Paths(after) : /\ after[j].key = before[i].key
                                  /\ after[j].d = before[i].d

\* C11: when a subpath of a multi-contour path of the outline does not start
\* with a move command, dealWithMultipleContours displays the malformed-cutout
\* diagnostic, returns false and splits nothing: the document holds as many
\* path elements as before, each with the data it had, the well-formed
\* multi-contour paths too
C11_MalformedCutoutNoSplit ==
    /\ pcClip \in {"squash", "outOfRange"}
    /\ forWhy = "ForOutline"
    /\ \E i \in DOMAIN svgString : Malformed(svgString[i])
    => /\ pcClip = "squash"
       /\ CutoutsMessage
       /\ ~multipleContours
       /\ SamePaths(svgString, domDocument1)

\* an outline with a malformed and a well-formed multi-contour path has gone
\* through dealWithMultipleContours
C11_Witness ==
    /\ pcClip = "squash"
    /\ forWhy = "ForOutline"
    /\ \E i \in DOMAIN svgString : Malformed(svgString[i])
    /\ \E i \in DOMAIN svgString : hasMultipleContours(svgString[i]) /\ subpathsOK(svgString[i])
    /\ CutoutsMessage
    /\ Cardinality(Paths(domDocument1)) = 2

\* C12 as stated: when the malformed-cutout diagnostic was displayed for the
\* outline, the outline is not converted and no contour file is saved, and
\* every other layer of the export, drill too, is processed
C12_MalformedCutoutAbortsOutlineOnly ==
    pc = "done" /\ CutoutsMessage =>
        /\ "contour" \notin converted
        /\ OutlineSuffix \notin files
        /\ LayersOf(boardLayers) \ {"contour"} \subseteq rendered

\* the other half of C12, which the code keeps: after the malformed-cutout
\* diagnostic every other layer of the export, drill too, is processed
C12_OtherLayersProcessed ==
    pc = "done" /\ CutoutsMessage =>
        LayersOf(boardLayers) \ {"contour"} \subseteq rendered

\* inside clipToBoard the unsplit outline goes on to the squashes and the
\* raster fallback: the malformed path is retagged and rasterized
C12_UnsplitOutlineRasterized ==
    /\ pcClip = "returned"
    /\ forWhy = "ForOutline"
    /\ \E i \in DOMAIN svgString : Malformed(svgString[i])
    => /\ \A i \in DOMAIN svgString :
            Malformed(svgString[i]) => svgString[i].key \in Retagged(svgString, domDocument1)
       /\ rasterized

\* the connector of treatAsCircle handleDonuts finds for a path; {} when none
ConnectorOf(e) ==
    IF e.tag = "path" /\ e.id # "" /\ treatAsCircle # {}
    THEN findConnector(treatAsCircle, e.id, e.partIDs) ELSE {}

\* the circle handleDonuts put before the path with this key; <<>> when the
\* path has no circle before it
DonutOf(doc, key) ==
    LET at == {j \in DOMAIN doc : doc[j].key = key /\ j > 1 /\ doc[j - 1].tag = "circle"}
    IN IF at = {} THEN <<>> ELSE <<doc[(CHOOSE j \in at : TRUE) - 1]>>

\* a circle at the center of the path's rendered bounding box
Centered(circle, path) ==
    /\ 2 * circle.cx \in {path.bounds.left + path.bounds.right - 1,
                          path.bounds.left + path.bounds.right}
    /\ 2 * circle.cy \in {path.bounds.top + path.bounds.bottom - 1,
                          path.bounds.top + path.bounds.bottom}

\* handleDonuts has run on a document with a path it matched to a connector
DonutsMade == pcClip = "squash" /\ \E i \in DOMAIN svgString : ConnectorOf(svgString[i]) # {}

\* C13 as stated: the circle made for a connector of radius r and stroke
\* width s has r = r and stroke-width = s, and is centered on the path's
\* rendered bounding box
C13_DonutPassthrough ==
    pcClip = "squash" =>
        \A i \in DOMAIN svgString : \A c \in ConnectorOf(svgString[i]) :
            LET made == DonutOf(domDocument1, svgString[i].key)
            IN /\ made # <<>>
               /\ made[1].r = c.radius
               /\ made[1].sw = c.strokeWidth
               /\ Centered(made[1], svgString[i])

\* C13 as the code has it: the circle's r is the connector's radius times
\* GraphicsUtils::StandardFritzingDPI / GraphicsUtils::SVGDPI and its
\* stroke-width the connector's stroke width times the same factor (pixels
\* brought to the document's resolution), and it is centered on the path's
\* rendered bounding box
C13_DonutScaledToDocument ==
    pcClip = "squash" =>
        \A i \in DOMAIN svgString : \A c \in ConnectorOf(svgString[i]) :
            LET made == DonutOf(domDocument1, svgString[i].key)
            IN /\ made # <<>>
               /\ made[1].r * SVGDPI = c.radius * StandardFritzingDPI
               /\ made[1].sw * SVGDPI = c.strokeWidth * StandardFritzingDPI
               /\ made[1].r # c.radius
               /\ Centered(made[1], svgString[i])

\* a circle has been made for the connector's path
C13_Witness ==
    /\ DonutsMade
    /\ \E i \in DOMAIN svgString :
          /\ ConnectorOf(svgString[i]) = {Connector}
          /\ DonutOf(domDocument1, svgString[i].key) # <<>>
          /\ DonutOf(domDocument1, svgString[i].key)[1].id = Connector.svgId

(***************************************************************************)
(* clipToBoard on one element at the board's edge                          *)
(***************************************************************************)

\* edges of a rendered bounding box around the board's edges: within the
\* board, on the margin, and beyond it
LowEdges == {sourceRes.left - unknownMargin - 1, sourceRes.left - unknownMargin,
             sourceRes.left, sourceRes.left + 100}
HighEdges == {sourceRes.right - 100, sourceRes.right, sourceRes.right + unknownMargin,
              sourceRes.right + unknownMargin + 1}

EdgeRects ==
    { [Element("rect", "rect1") EXCEPT !.key = 1, !.bounds = b] :
        b \in [left : LowEdges, top : LowEdges, right : HighEdges, bottom : HighEdges] }

\* centers that put the outer or the inner edge of a circle of radius 50 on
\* the margin or just beyond it, for the stroke widths of EdgeCircles
Centers == {-20, 20, 38, 39, 48, 49, 58, 59, 500, 941, 942, 961, 962, 1020}

\* a pad's ring, a plain circle and a disc, as a connector and as a hole
EdgeCircles ==
    { [Element("circle", id) EXCEPT !.key = 1, !.cx = cx, !.cy = cy, !.r = 50, !.sw = sw] :
        id \in {"connector0pin", "nonconn0"}, cx \in Centers, cy \in Centers,
        sw \in {0, 20, 100} }

InitBounds ==
    /\ IdleExport
    /\ IdleRetry
    /\ IdleMount
    /\ IdleMore
    /\ ClipLocals
    /\ \E call \in Calls :
          /\ forWhy = call.forWhy
          /\ clipString = call.clipString
          /\ treatAsCircle = call.treatAsCircle
    /\ parsable = TRUE
    /\ \E e \in EdgeRects \cup EdgeCircles : svgString = <<e>>

SpecBounds == InitBounds /\ [][NextClip]_vars

Max(S) == CHOOSE x \in S : \A y \in S : y <= x

\* how far a bounding box reaches beyond the board rectangle, on the side
\* where it reaches farthest; 0 or less when it does not
Overhang(b) ==
    Max({sourceRes.left - b.left, sourceRes.top - b.top,
         b.right - sourceRes.right, b.bottom - sourceRes.bottom})

\* the bounds of a circle with its stroke, and of the hole within its stroke
OuterBounds(c) ==
    [left |-> c.cx - c.r - c.sw \div 2, top |-> c.cy - c.r - c.sw \div 2,
     right |-> c.cx + c.r + c.sw \div 2, bottom |-> c.cy + c.r + c.sw \div 2]
InnerBounds(c) ==
    [left |-> c.cx - c.r + c.sw \div 2, top |-> c.cy - c.r + c.sw \div 2,
     right |-> c.cx + c.r - c.sw \div 2, bottom |-> c.cy + c.r - c.sw \div 2]

Circles(doc) == {i \in DOMAIN doc : doc[i].tag = "circle"}

\* Phase A has run on a document of one circle that reached it as a circle
CircleThroughPhaseA ==
    /\ pcClip = "mask"
    /\ forWhy # "ForOutline"
    /\ svgString[1].tag = "circle"
    /\ domDocument2[1].tag = "circle"

\* C14 as stated: a circle reaching beyond the board rectangle by less than
\* its radius is still a circle element after Phase A, one reaching beyond it
\* by more than its radius is discarded
C14_KeptWithinRadius ==
    CircleThroughPhaseA =>
        LET c == svgString[1]
            o == Overhang(OuterBounds(c))
        IN /\ o > 0 /\ o < c.r => Circles(domDocument1) # {}
           /\ o > c.r => Circles(domDocument1) = {}

\* C14 as the code has it: a circle whose bounds, stroke included, reach
\* beyond the board rectangle by more than the margin is retagged, and a copy
\* of it without stroke and with the radius less half the stroke width is
\* tested in its place: when the copy stays within the margin, that is when
\* the circle reaches beyond the board by no more than its stroke width plus
\* the margin, the copy is kept as a circle element with id __0__, its radius
\* enlarged by 4 and stroke-width 2; otherwise nothing is left of the circle.
\* The circle's radius plays no part.  A circle within the margin is left
\* as it is
C14_KeptWithinStroke ==
    CircleThroughPhaseA =>
        LET c == svgString[1]
            o == Overhang(OuterBounds(c))
            inset == Overhang(InnerBounds(c))
        IN /\ inset = o - c.sw
           /\ o <= unknownMargin =>
                 domDocument1 = <<[c EXCEPT !.id = "0"]>>
           /\ o > unknownMargin /\ inset <= unknownMargin =>
                 /\ Len(domDocument1) = 2
                 /\ domDocument1[1] = [c EXCEPT !.id = "0", !.tag = "g"]
                 /\ domDocument1[2].tag = "circle"
                 /\ domDocument1[2].id = "__0__"
                 /\ domDocument1[2].cx = c.cx /\ domDocument1[2].cy = c.cy
                 /\ domDocument1[2].r = c.r - c.sw \div 2 + 40
                 /\ domDocument1[2].sw = 20
           /\ o > unknownMargin /\ inset > unknownMargin =>
                 domDocument1 = <<[c EXCEPT !.id = "0", !.tag = "g"]>>
           /\ o > unknownMargin => anyClipped /\ anyConverted

\* a ring reaching beyond the board by less than its radius but by more than
\* its stroke width has been discarded, and a disc reaching beyond it by more
\* than its radius has been kept
C14_Witness ==
    /\ CircleThroughPhaseA
    /\ LET c == svgString[1]
           o == Overhang(OuterBounds(c))
       IN \/ o > 0 /\ o < c.r /\ c.sw > 0 /\ Circles(domDocument1) = {}
          \/ o > c.r /\ Circles(domDocument1) # {}

\* the bounds the renderer reports for a leaf that is drawn
RenderedBounds(e) == IF e.tag = "circle" THEN OuterBounds(e) ELSE e.bounds

\* Phase A has run on a document of one leaf that reached it unsquashed
LeafThroughPhaseA == pcClip = "mask" /\ Len(svgString) = 1 /\ domDocument2[1].tag # "g"

\* C15: on a layer other than the outline, a leaf whose bounds reach beyond
\* the board rectangle by the margin exactly, or by less, keeps its tag in
\* Phase A, and a leaf whose bounds reach beyond it by more than the margin on
\* any side is retagged "g" with anyClipped and anyConverted set; on the
\* outline Phase A retags nothing
C15_ClippedBeyondMargin ==
    LeafThroughPhaseA =>
        LET e == svgString[1]
            o == Overhang(RenderedBounds(e))
        IN IF forWhy # "ForOutline"
           THEN /\ o <= unknownMargin =>
                     domDocument1[1].tag = domDocument2[1].tag /\ ~anyClipped
                /\ o > unknownMargin =>
                     domDocument1[1].tag = "g" /\ anyClipped /\ anyConverted
           ELSE domDocument1[1].tag = domDocument2[1].tag /\ ~anyClipped

\* a rect whose bounds reach beyond the board by the margin exactly has gone
\* through Phase A of a copper layer and is still a rect
C15_Witness ==
    /\ LeafThroughPhaseA
    /\ forWhy = "ForCopper"
    /\ svgString[1].tag = "rect"
    /\ Overhang(svgString[1].bounds) = unknownMargin
    /\ domDocument1[1].tag = "rect"
    /\ ~anyClipped

(***************************************************************************)
(* checkMountTechnology, lines 966-999                                     *)
(*                                                                         *)
(* A string is the sequence of its characters.                             *)
(***************************************************************************)

MaxParts == 2

LowerCase == <<"a", "b", "c", "d", "e", "f", "g", "h", "i", "j", "k", "l", "m",
               "n", "o", "p", "q", "r", "s", "t", "u", "v", "w", "x", "y", "z">>
UpperCase == <<"A", "B", "C", "D", "E", "F", "G", "H", "I", "J", "K", "L", "M",
               "N", "O", "P", "Q", "R", "S", "T", "U", "V", "W", "X", "Y", "Z">>

\* the character folded for a comparison under Qt::CaseInsensitive
toUpper(ch) ==
    IF \E i \in DOMAIN LowerCase : LowerCase[i] = ch
    THEN UpperCase[CHOOSE i \in DOMAIN LowerCase : LowerCase[i] = ch]
    ELSE ch

folded(str) == [i \in DOMAIN str |-> toUpper(str[i])]

\* QString::contains(sub, Qt::CaseInsensitive)
containsCaseInsensitive(str, sub) ==
    \E i \in 1..(Len(str) - Len(sub) + 1) :
        SubSeq(folded(str), i, i + Len(sub) - 1) = folded(sub)

THT == <<"T", "H", "T">>
SMD == <<"S", "M", "D">>
LEADLESS == <<"L", "E", "A", "D", "L", "E", "S", "S">>

\* lines 981-984
knownTHTPackages ==
    << <<"D", "I", "P">>, <<"T", "O", "-", "3">>, <<"T", "O", "-", "5">>,
       <<"T", "O", "-", "8">>, <<"T", "O", "-", "1", "8">>,
       <<"T", "O", "-", "6", "6">>, <<"T", "O", "-", "7", "2">>,
       <<"T", "O", "-", "9", "2">>, <<"T", "O", "9", "2">>,
       <<"T", "O", "-", "9", "9">>, <<"T", "O", "-", "1", "0", "0">>,
       <<"T", "O", "-", "1", "2", "6">>, <<"T", "O", "-", "2", "1", "8">>,
       <<"T", "O", "-", "2", "2", "0">>, <<"T", "O", "2", "2", "0">>,
       <<"T", "O", "-", "2", "4", "7">>, <<"T", "O", "-", "2", "5", "2">>,
       <<"T", "O", "-", "2", "5", "7">>, <<"T", "O", "-", "2", "5", "8">>,
       <<"T", "O", "-", "2", "6", "4">>, <<"P", "F", "M">>,
       <<"D", "I", "L">>, <<"Z", "I", "P">>, <<"S", "I", "P">> >>

\* lines 986-997: the loop from the i-th known package on
RECURSIVE knownLoop(_, _)
knownLoop(pkg, i) ==
    IF i > Len(knownTHTPackages) THEN "SMT"
    ELSE IF containsCaseInsensitive(pkg, knownTHTPackages[i])
    THEN (IF ~containsCaseInsensitive(pkg, LEADLESS) THEN "THT" ELSE "SMT")
    ELSE knownLoop(pkg, i + 1)

\* lines 966-999 with the test for SMD before the test for THT
checkMountTechnologySmdFirst(pkg) ==
    IF pkg = <<>> THEN "MANUAL"
    ELSE IF containsCaseInsensitive(pkg, SMD) THEN "SMT"
    ELSE IF containsCaseInsensitive(pkg, THT) THEN "THT"
    ELSE knownLoop(pkg, 1)

\* lines 966-999
checkMountTechnology(pkg) ==
    IF pkg = <<>> THEN "MANUAL"
    ELSE IF containsCaseInsensitive(pkg, THT) THEN "THT"
    ELSE IF containsCaseInsensitive(pkg, SMD) THEN "SMT"
    ELSE knownLoop(pkg, 1)

\* pieces of package strings: the known packages, the markers in upper,
\* lower and mixed case, and parts that make a keyword only when put together
Parts ==
    { knownTHTPackages[i] : i \in DOMAIN knownTHTPackages } \cup
    { <<"T", "H", "T">>, <<"S", "M", "D">>,
      <<"L", "E", "A", "D", "L", "E", "S", "S">>,
      <<"-", "L", "E", "A", "D", "L", "E", "S", "S">>,
      <<"Q", "F", "N", "-", "3", "2">>, <<"t", "h", "t">>, <<"S", "m", "d">>,
      <<"l", "e", "a", "d", "l", "e", "s", "s">>, <<"d", "i", "p">>,
      <<"t", "o", "-", "2", "2", "0">>, <<"T">>, <<"H", "T">>, <<"S", "M">>,
      <<"D">>, <<"T", "O", "-", "2">>, <<"2", "0">>, <<"L", "E", "A", "D">>,
      <<"L", "E", "S", "S">>, <<"-">>, <<"X">> }

RECURSIVE Joined(_)
Joined(parts) == IF parts = <<>> THEN <<>> ELSE Head(parts) \o Joined(Tail(parts))

\* the package strings made of up to MaxParts pieces
Packages == { Joined(parts) : parts \in UNION { [1..n -> Parts] : n \in 0..MaxParts } }

InitMount ==
    /\ IdleExport
    /\ IdleRetry
    /\ IdleClip
    /\ IdleMore
    /\ pcMount = "call"
    /\ package \in Packages
    /\ technology = ""

\* the call of line 1080
CheckMount ==
    /\ pcMount = "call"
    /\ pcMount' = "returned"
    /\ technology' = checkMountTechnology(package)
    /\ UNCHANGED <<package, varsExport, varsRetry, varsClip, varsMore>>

SpecMount == InitMount /\ [][CheckMount]_vars

\* the string has the marker or keyword, whatever the case of its letters
Has(str, word) == containsCaseInsensitive(str, word)
HasKnownPackage(str) == \E i \in DOMAIN knownTHTPackages : Has(str, knownTHTPackages[i])

\* C16: checkMountTechnology returns MANUAL, THT or SMT: MANUAL exactly for
\* the empty package; for a non-empty package THT exactly when the package
\* holds "THT", or holds no "SMD" and holds a known through-hole package and
\* not "LEADLESS", the case of the letters ignored; SMT otherwise.  So TO-220
\* gives THT, TO-220-LEADLESS gives SMT and QFN-32 gives SMT
C16_MountTechnology ==
    pcMount = "returned" =>
        /\ technology \in {"MANUAL", "THT", "SMT"}
        /\ technology = "MANUAL" <=> package = <<>>
        /\ package # <<>> =>
              (technology = "THT" <=>
                  \/ Has(package, THT)
                  \/ ~Has(package, SMD) /\ HasKnownPackage(package) /\ ~Has(package, LEADLESS))
        /\ package = <<"T", "O", "-", "2", "2", "0">> => technology = "THT"
        /\ package = <<"T", "O", "-", "2", "2", "0", "-", "L", "E", "A", "D", "L", "E", "S", "S">> => technology = "SMT"
        /\ package = <<"Q", "F", "N", "-", "3", "2">> => technology = "SMT"

\* TO-220-LEADLESS has been classified SMT
C16_Witness ==
    /\ pcMount = "returned"
    /\ package = <<"T", "O", "-", "2", "2", "0", "-", "L", "E", "A", "D", "L", "E", "S", "S">>
    /\ technology = "SMT"

\* every multi-contour path of the document passed in has a subpath, and all
\* its subpaths start with a move: the paths dealWithMultipleContours splits
WellFormedContours ==
    /\ \E i \in DOMAIN svgString : hasMultipleContours(svgString[i])
    /\ \A i \in DOMAIN svgString :
          hasMultipleContours(svgString[i]) =>
              subpathsOK(svgString[i]) /\ split(svgString[i].d) # <<>>

\* C18: on a layer other than the outline, every path whose data holds
\* multiple close markers is retagged "g" by the squashes, with anyConverted
\* set.  On the outline, when the multi-contour paths are well formed, they
\* are split before the squashes (domDocument2, copied at line 419, already
\* holds the split paths), no path that reaches the squashes holds multiple
\* close markers, and the rewritten original and the appended siblings are
\* still paths after them unless they hold a curve or are scaled
C18_MultipleContoursSquashedOrSplit ==
    pcClip = "bounds" =>
        IF forWhy # "ForOutline"
        THEN \A i \in DOMAIN svgString :
                svgString[i].tag = "path" /\ CountZ(svgString[i].d) >= 2 =>
                    /\ NodeOf(domDocument1, svgString[i].key).tag = "g"
                    /\ anyConverted
        ELSE WellFormedContours =>
                /\ multipleContours
                /\ \A i \in DOMAIN svgString :
                      hasMultipleContours(svgString[i]) =>
                          NodeOf(domDocument2, svgString[i].key).d # svgString[i].d
                /\ \A j \in Paths(domDocument2) :
                      /\ ~MultipleZs(domDocument2[j].d)
                      /\ ~AaCc(domDocument2[j].d) /\ ~domDocument2[j].scaling =>
                            domDocument1[j].tag = "path"

\* an outline path of two contours has been split into two paths that are
\* still paths after the squashes
C18_Witness ==
    /\ pcClip = "bounds"
    /\ forWhy = "ForOutline"
    /\ WellFormedContours
    /\ Len(svgString) = 1
    /\ CountZ(svgString[1].d) = 2
    /\ Len(domDocument1) = 2
    /\ domDocument1[1].tag = "path"
    /\ domDocument1[2].tag = "path"
    /\ ~anyConverted

\* C19 as stated: after handleDonuts every path matched to a connector of
\* treatAsCircle has a circle with the path's former id at its position and
\* is no longer a path, in the vector document (domDocument1) and in the
\* raster document (domDocument2); a path that matches no connector, and
\* every path when treatAsCircle is empty, is as it was
C19_PathReplacedByCircle ==
    pcClip = "squash" =>
        \A i \in DOMAIN svgString :
            svgString[i].tag = "path" =>
                IF ConnectorOf(svgString[i]) # {}
                THEN /\ DonutOf(domDocument1, svgString[i].key) # <<>>
                     /\ DonutOf(domDocument1, svgString[i].key)[1].id = svgString[i].id
                     /\ NodeOf(domDocument1, svgString[i].key).tag # "path"
                     /\ NodeOf(domDocument2, svgString[i].key).tag # "path"
                ELSE forWhy # "ForOutline" =>
                        /\ NodeOf(domDocument1, svgString[i].key) = svgString[i]
                        /\ NodeOf(domDocument2, svgString[i].key) = svgString[i]

\* what handleDonuts does: the circle is put before the matched path, which
\* stays in both documents as a path with its data, without its id; the
\* other paths are as they were
C19_CircleBesidePath ==
    pcClip = "squash" =>
        \A i \in DOMAIN svgString :
            svgString[i].tag = "path" =>
                IF ConnectorOf(svgString[i]) # {}
                THEN /\ DonutOf(domDocument1, svgString[i].key) # <<>>
                     /\ DonutOf(domDocument1, svgString[i].key)[1].id = svgString[i].id
                     /\ NodeOf(domDocument1, svgString[i].key) = [svgString[i] EXCEPT !.id = ""]
                     /\ NodeOf(domDocument2, svgString[i].key) = [svgString[i] EXCEPT !.id = ""]
                ELSE forWhy # "ForOutline" =>
                        /\ NodeOf(domDocument1, svgString[i].key) = svgString[i]
                        /\ NodeOf(domDocument2, svgString[i].key) = svgString[i]

\* the matched path is still drawn by the vector document when clipToBoard
\* returns, next to its circle
C19_PathStillDrawn ==
    /\ pcClip = "returned"
    /\ \E i \in DOMAIN svgString :
          /\ ConnectorOf(svgString[i]) # {}
          /\ NodeOf(svgOut, svgString[i].key).tag = "path"
          /\ DonutOf(svgOut, svgString[i].key) # <<>>

\* an element one of the squashes of lines 421-487 retags
Unsupported(e) ==
    \/ e.tag \in {"text", "ellipse", "image"}
    \/ Rounded(e)
    \/ e.tag \in {"rect", "circle", "line"} /\ ~noDashes(e)
    \/ e.tag = "path" /\ (AaCc(e.d) \/ CountZ(e.d) >= 2 \/ e.scaling)

\* the paths of the document passed in for which handleDonuts made a circle
Donuts == {i \in DOMAIN svgString : ConnectorOf(svgString[i]) # {}}

\* C20 as stated: when the cleaning steps are over, anyConverted is true
\* exactly when an element was retagged "g" or a circle was made for a path
\* of treatAsCircle
C20_FlagIffRetaggedOrReplaced ==
    pcClip = "bounds" =>
        (anyConverted <=> Retagged(svgString, domDocument1) # {} \/ Donuts # {})

\* C20 as the code has it: when the cleaning steps are over, anyConverted is
\* true exactly when one of the squashes of lines 421-487 retagged an
\* element, that is when the document that reached them (domDocument2, the
\* copy of line 419) held an unsupported element; those elements are the
\* ones the squashes retag.  The retag of the plain holes (lines 393-408)
\* and the circles of handleDonuts do not set it
C20_FlagIffSquashed ==
    pcClip = "bounds" =>
        /\ anyConverted <=> \E j \in DOMAIN domDocument2 : Unsupported(domDocument2[j])
        /\ Retagged(domDocument2, domDocument1) =
              {domDocument2[j].key : j \in {k \in DOMAIN domDocument2 :
                                                Unsupported(domDocument2[k])}}
        /\ anyConverted <=> Retagged(domDocument2, domDocument1) # {}

\* a copper document with a plain hole, retagged, and a path of
\* treatAsCircle, given its circle: anyConverted is false
C20_Witness ==
    /\ pcClip = "bounds"
    /\ forWhy = "ForCopper"
    /\ Donuts # {}
    /\ \E i \in DOMAIN svgString :
          /\ PlainHole(svgString[i])
          /\ svgString[i].key \in Retagged(svgString, domDocument1)
    /\ ~anyConverted

(***************************************************************************)
(* Phase B of clipToBoard on the pixels of the two rasters                 *)
(***************************************************************************)

Side == 2

\* lines 503-504: the size of sourceRes in pixels.  The images are two
\* pixels wider and higher (line 505); Phase B never reads those pixels
twidth == Side
theight == 2

Pixels == (0..(twidth - 1)) \X (0..(theight - 1))

\* a monochrome image, pixel by pixel; 0xffffffff is "white"
MonoImages == [Pixels -> {"white", "black"}]

\* QImage::fill(0xffffffff) (lines 510, 597)
filled == [p \in Pixels |-> "white"]

qMax(a, b) == IF a >= b THEN a ELSE b
qMin(a, b) == IF a <= b THEN a ELSE b

\* qFloor and qCeil of a length given in half pixels
qFloor(halves) == halves \div 2
qCeil(halves) == (halves + 1) \div 2

\* lines 60-76 looking at the first image only
RECURSIVE pixelsCollideFirstOnly(_, _, _, _, _, _)
pixelsCollideFirstOnly(image1, image2, x1, y1, x2, y2) ==
    IF y1 >= y2 THEN FALSE
    ELSE IF \E x \in x1..(x2 - 1) : image1[<<x, y1>>] # "white" THEN TRUE
    ELSE pixelsCollideFirstOnly(image1, image2, x1, y1 + 1, x2, y2)

\* lines 61-73 from pixel (x, y) on: the rows from y up to y2, the columns
\* from x1 up to x2
RECURSIVE pixelsCollideFrom(_, _, _, _, _, _, _)
pixelsCollideFrom(image1, image2, x, y, x1, x2, y2) ==
    IF y >= y2 THEN FALSE
    ELSE IF x >= x2 THEN pixelsCollideFrom(image1, image2, x1, y + 1, x1, x2, y2)
    ELSE IF image1[<<x, y>>] = "white"
         THEN pixelsCollideFrom(image1, image2, x + 1, y, x1, x2, y2)
    ELSE IF image2[<<x, y>>] = "white"
         THEN pixelsCollideFrom(image1, image2, x + 1, y, x1, x2, y2)
    ELSE TRUE

\* lines 60-76
pixelsCollide(image1, image2, x1, y1, x2, y2) ==
    pixelsCollideFrom(image1, image2, x1, y1, x1, x2, y2)

\* lines 618-621, sourceRes being at the origin: the leaf's bounds clamped
\* to the board and widened to whole pixels
clamped(b) ==
    [x1 |-> qFloor(qMax(0, b.left)),
     x2 |-> qCeil(qMin(2 * twidth, b.right)),
     y1 |-> qFloor(qMax(0, b.top)),
     y2 |-> qCeil(qMin(2 * theight, b.bottom))]

\* lines 595-631 with the pixels looked at: with a clip image, every
\* collected leaf not yet retagged is retagged when pixelsCollide finds a
\* collision within its clamped bounds
phaseBOnPixels(doc, leaves, clip, b) ==
    LET c == clamped(b)
        collide(e) == /\ clip # ""
                      /\ \E i \in DOMAIN leaves : leaves[i] = e.key
                      /\ e.tag # "g"
                      /\ pixelsCollide(another, clipImage, c.x1, c.y1, c.x2, c.y2)
    IN [doc |-> [i \in DOMAIN doc |->
                    IF collide(doc[i]) THEN [doc[i] EXCEPT !.tag = "g"] ELSE doc[i]],
        anyClipped |-> \E i \in DOMAIN doc : collide(doc[i])]

\* bounds in half pixels, reaching up to half a pixel over the board's
\* left and right edges and a pixel over its top and bottom edges
LeafBounds ==
    { b \in [left : (-1)..(2 * twidth + 1), right : (-1)..(2 * twidth + 1),
             top : {2 * y : y \in (-1)..(theight + 1)},
             bottom : {2 * y : y \in (-1)..(theight + 1)}] :
        b.left < b.right /\ b.top < b.bottom }

\* the bounds of the whole board
BoardBounds == [left |-> 0, top |-> 0, right |-> 2 * twidth, bottom |-> 2 * theight]

\* clipToBoard before Phase B (line 595) with one leaf, retagged already or
\* not, the raster of the document, and the raster of the clip mask when
\* there is a clip string
InitPixels ==
    /\ IdleExport
    /\ IdleRetry
    /\ IdleMount
    /\ IdleTrace
    /\ IdleOutline
    /\ IdleBin
    /\ pcClip = "mask"
    /\ forWhy = "ForSilk"
    /\ clipString \in {"", "mask"}
    /\ treatAsCircle = {}
    /\ parsable = TRUE
    /\ svgString = <<[Element("rect", "rect1") EXCEPT !.key = 1]>>
    /\ svgOut = svgString
    /\ domDocument1 \in {svgString, <<[svgString[1] EXCEPT !.tag = "g"]>>}
    /\ domDocument2 = svgString
    /\ leaves1 = <<1>>
    /\ anyConverted = (domDocument1[1].tag = "g")
    /\ anyClipped = FALSE
    /\ multipleContours = FALSE
    /\ rasterized = FALSE
    /\ traced = 0
    /\ merged = <<>>
    /\ another \in MonoImages
    /\ clipImage \in IF clipString = "" THEN {filled} ELSE MonoImages
    /\ leafBounds \in IF domDocument1[1].tag = "g" THEN {BoardBounds} ELSE LeafBounds

\* lines 595-631
PhaseBOnPixels ==
    /\ pcClip = "mask"
    /\ another # <<>>
    /\ UNCHANGED <<varsExport, varsRetry, varsMount, varsMore>>
    /\ pcClip' = "raster"
    /\ LET b == phaseBOnPixels(domDocument1, leaves1, clipString, leafBounds)
       IN /\ domDocument1' = b.doc
          /\ anyClipped' = (anyClipped \/ b.anyClipped)
          /\ anyConverted' = (anyConverted \/ b.anyClipped)
    /\ UNCHANGED <<forWhy, clipString, treatAsCircle, parsable, svgString, svgOut,
                   domDocument2, leaves1, multipleContours, rasterized, traced, merged>>

SpecPixels == InitPixels /\ [][PhaseBOnPixels]_vars

\* the pixels of the board that the bounds b reach into
Region(b) ==
    {p \in Pixels : /\ 2 * (p[1] + 1) > b.left /\ 2 * p[1] < b.right
                    /\ 2 * (p[2] + 1) > b.top /\ 2 * p[2] < b.bottom}

\* the pixels that are not white in both images
Overlap(image1, image2) == {p \in Pixels : image1[p] # "white" /\ image2[p] # "white"}

\* C21: Phase B changes nothing without a clip string; with one, a leaf
\* tagged "g" stays as it is, and another leaf is retagged "g" exactly when
\* a pixel within its bounds clamped to the board is non-white in the
\* raster of the document and in the raster of the mask.  pixelsCollide is
\* false on an empty region and gives the same with its images exchanged
C21_PhaseBCollision ==
    [][pcClip = "mask" =>
        LET c == clamped(leafBounds)
        IN /\ clipString = "" => domDocument1' = domDocument1 /\ anyClipped' = anyClipped
           /\ \A i \in DOMAIN domDocument1 :
                 IF domDocument1[i].tag = "g"
                 THEN domDocument1'[i] = domDocument1[i]
                 ELSE /\ domDocument1'[i].tag = "g" <=>
                            /\ clipString # ""
                            /\ Region(leafBounds) \cap Overlap(another, clipImage) # {}
                      /\ domDocument1'[i].tag \in {"g", domDocument1[i].tag}
           /\ pixelsCollide(another, clipImage, c.x1, c.y1, c.x2, c.y2)
                 = pixelsCollide(clipImage, another, c.x1, c.y1, c.x2, c.y2)
           /\ c.x1 >= c.x2 \/ c.y1 >= c.y2 =>
                 ~pixelsCollide(another, clipImage, c.x1, c.y1, c.x2, c.y2)]_vars

\* Phase B has retagged a leaf whose bounds reach over the board's edge,
\* for a collision within them, the two rasters being different and having
\* a pixel out of the bounds that is black in one of them only
C21_Witness ==
    /\ pcClip = "raster"
    /\ another # <<>>
    /\ clipString # ""
    /\ anyClipped
    /\ domDocument1[1].tag = "g"
    /\ leafBounds.left < 0
    /\ another # clipImage
    /\ \E p \in Pixels \ Region(leafBounds) : another[p] # "white" /\ clipImage[p] = "white"

(***************************************************************************)
(* The two documents of clipToBoard when it returns                        *)
(***************************************************************************)

\* the keys of the collected leaves
Leaves == {leaves1[i] : i \in DOMAIN leaves1}

\* the keys of the collected leaves that document doc draws
Drawn(doc) == {k \in Leaves : NodeOf(doc, k).tag # "g"}

\* the keys of the collected leaves document 1 no longer draws
Squashed == Leaves \ Drawn(domDocument1)

\* the keys of the collected leaves that document 2 draws when it is
\* rendered: in one of the calls of mergeOutlineElement for the outline
Rasterized ==
    IF forWhy = "ForOutline" /\ rasterized
    THEN UNION {Drawn(merged[c].document) : c \in DOMAIN merged}
    ELSE Drawn(domDocument2)

\* the keys of the plain holes lines 393-408 retagged, before the copy of
\* line 419 was made
HolesRetagged ==
    IF forWhy = "ForDrill" THEN {}
    ELSE {svgString[i].key : i \in {j \in DOMAIN svgString : PlainHole(svgString[j])}}

\* the paths traced are the last elements of the string returned
TracedLast ==
    /\ Len(svgOut) >= traced
    /\ \A i \in DOMAIN svgOut : svgOut[i].key < 0 <=> i > Len(svgOut) - traced

\* C22 as stated: when clipToBoard returns and a leaf has been retagged,
\* every leaf is drawn by one document at most (a leaf document 1 draws is
\* retagged in document 2) and every retagged leaf of document 1 is drawn by
\* document 2; the traced path is last in the string returned; when no leaf
\* has been retagged nothing is rasterized and no path is appended
C22_EveryLeafInOneDocument ==
    pcClip = "returned" /\ leaves1 # <<>> =>
        /\ Drawn(domDocument1) # Leaves =>
              /\ Drawn(domDocument1) \cap Rasterized = {}
              /\ Squashed \subseteq Rasterized
              /\ rasterized
        /\ Drawn(domDocument1) = Leaves => ~rasterized /\ traced = 0
        /\ TracedLast

\* C22 as the code has it: the raster fallback runs exactly when a leaf has
\* been retagged by the squashes or by the clipping steps (anyConverted);
\* then every leaf is drawn by one document at most, and the retagged leaves
\* of document 1 are drawn by document 2 but for the plain holes, which were
\* retagged before document 2 was copied and are drawn by neither; the
\* traced path is last in the string returned.  Otherwise, also when only
\* plain holes have been retagged, nothing is rasterized, no path is
\* appended and the string returned is document 1 as it was written
C22_SquashedLeafInRasterDocument ==
    pcClip = "returned" /\ leaves1 # <<>> =>
        /\ anyConverted <=> Squashed \ HolesRetagged # {}
        /\ rasterized <=> anyConverted
        /\ anyConverted =>
              /\ Drawn(domDocument1) \cap Rasterized = {}
              /\ Rasterized = Squashed \ HolesRetagged
              /\ forWhy # "ForOutline" => traced = 1
        /\ ~anyConverted =>
              /\ traced = 0
              /\ Drawn(domDocument2) = Drawn(domDocument1)
              /\ \A i \in DOMAIN svgOut : svgOut[i].tag = domDocument1[i].tag
        /\ TracedLast

\* a copper call has returned from a document with a plain hole and a
\* rounded rect: the rect is drawn by document 2 only, the hole by neither
\* document, and one traced path ends the string
C22_Witness ==
    /\ pcClip = "returned"
    /\ forWhy = "ForCopper"
    /\ Len(svgString) = 2
    /\ HolesRetagged # {}
    /\ \E i \in DOMAIN svgString : Rounded(svgString[i])
    /\ Cardinality(Rasterized) = 1
    /\ Drawn(domDocument1) = {}
    /\ traced = 1
    /\ svgOut[Len(svgOut)].key < 0

(***************************************************************************)
(* makePath                                                                *)
(***************************************************************************)

MaxWidth == 4

unknownMaxLineCount == 10

\* the monochrome images of up to MaxWidth columns and 3 rows
TraceImages ==
    UNION { [width : {w}, height : {h},
             pixel : [(0..(w - 1)) \X (0..(h - 1)) -> {"white", "black"}]]
            : w \in 1..MaxWidth, h \in 1..3 }

\* "M%1,%2L%3,%2 " of lines 866 and 885, the coordinates in half pixels; and
\* the "\n" of lines 870 and 889
Segment(m, y, l) == [kind |-> "ML", x1 |-> m, y |-> y, x2 |-> l]
Newline == [kind |-> "\n", x1 |-> 0, y |-> 0, x2 |-> 0]

\* lines 866-871 and 885-890: a segment goes to paths, and a newline after
\* every unknownMaxLineCount segments
addSegment(st, seg) ==
    IF st.lineCount + 1 = unknownMaxLineCount
    THEN [paths |-> st.paths \o <<seg, Newline>>, lineCount |-> 0]
    ELSE [paths |-> Append(st.paths, seg), lineCount |-> st.lineCount + 1]

\* lines 858-882: row y from column x on
RECURSIVE scanRow(_, _, _, _, _, _, _)
scanRow(img, u, y, x, inWhite, whiteStart, st) ==
    IF x >= img.width THEN [inWhite |-> inWhite, whiteStart |-> whiteStart, st |-> st]
    ELSE LET current == img.pixel[<<x, y>>]
         IN IF inWhite
            THEN IF current = "white"
                 THEN scanRow(img, u, y, x + 1, TRUE, whiteStart, st)
                 ELSE scanRow(img, u, y, x + 1, FALSE, whiteStart,
                              addSegment(st, Segment(2 * whiteStart + u, 2 * y + u,
                                                     2 * (x - 1) + u)))
            ELSE IF current # "white"
                 THEN scanRow(img, u, y, x + 1, FALSE, whiteStart, st)
                 ELSE scanRow(img, u, y, x + 1, TRUE, x, st)

\* lines 855-892 without the segment of lines 884-891
RECURSIVE makePathNoLast(_, _, _, _)
makePathNoLast(img, u, y, st) ==
    IF y >= img.height THEN st.paths
    ELSE makePathNoLast(img, u, y + 1, scanRow(img, u, y, 0, FALSE, 0, st).st)

\* lines 855-892 from row y on
RECURSIVE makePathFrom(_, _, _, _)
makePathFrom(img, u, y, st) ==
    IF y >= img.height THEN st.paths
    ELSE LET row == scanRow(img, u, y, 0, FALSE, 0, st)
             last == IF row.inWhite
                     THEN addSegment(row.st, Segment(2 * row.whiteStart + u, 2 * y + u,
                                                     2 * (img.width - 1) + u))
                     ELSE row.st
         IN makePathFrom(img, u, y + 1, last)

\* lines 850-897: the data of the path element returned
makePath(img, u) == makePathFrom(img, u, 0, [paths |-> <<>>, lineCount |-> 0])

InitTrace ==
    /\ IdleExport
    /\ IdleRetry
    /\ IdleClip
    /\ IdleMount
    /\ IdlePixels
    /\ IdleOutline
    /\ IdleBin
    /\ pcTrace = "call"
    /\ monoImage \in TraceImages
    /\ unit \in {1, 2}
    /\ pathData = <<>>

\* a call of makePath (line 765)
MakePath ==
    /\ pcTrace = "call"
    /\ pcTrace' = "returned"
    /\ pathData' = makePath(monoImage, unit)
    /\ UNCHANGED <<monoImage, unit, varsExport, varsRetry, varsClip, varsMount, varsPixels,
                   varsOutline, varsBin>>

SpecTrace == InitTrace /\ [][MakePath]_vars

\* the maximal runs of white pixels of row y, as <<first, last>>
Runs(img, y) ==
    {r \in (0..(img.width - 1)) \X (0..(img.width - 1)) :
        /\ r[1] <= r[2]
        /\ \A x \in r[1]..r[2] : img.pixel[<<x, y>>] = "white"
        /\ r[1] = 0 \/ img.pixel[<<r[1] - 1, y>>] # "white"
        /\ r[2] = img.width - 1 \/ img.pixel[<<r[2] + 1, y>>] # "white"}

\* the positions of pathData that hold a segment
Segments == {i \in DOMAIN pathData : pathData[i].kind = "ML"}

\* C23: the data makePath returns holds, for every row, one segment for
\* each maximal run of white pixels and no other, from the run's first
\* pixel to its last, both offset by half a unit, a run that ends at the
\* right edge included, in the order of the rows and columns; a pixel lies
\* within a segment of its row exactly when it is white; the data of an
\* image without a white pixel is empty
C23_OneSegmentPerWhiteRun ==
    pcTrace = "returned" =>
        /\ \A y \in 0..(monoImage.height - 1) :
              /\ \A r \in Runs(monoImage, y) :
                    Cardinality({i \in Segments :
                        pathData[i] = Segment(2 * r[1] + unit, 2 * y + unit, 2 * r[2] + unit)}) = 1
              /\ Cardinality({i \in Segments : pathData[i].y = 2 * y + unit})
                    = Cardinality(Runs(monoImage, y))
              /\ \A x \in 0..(monoImage.width - 1) :
                    monoImage.pixel[<<x, y>>] = "white" <=>
                        \E i \in Segments : /\ pathData[i].y = 2 * y + unit
                                            /\ pathData[i].x1 <= 2 * x + unit
                                            /\ 2 * x + unit <= pathData[i].x2
        /\ \A i \in Segments : \E y \in 0..(monoImage.height - 1) : pathData[i].y = 2 * y + unit
        /\ \A i, j \in Segments :
              i < j => \/ pathData[i].y < pathData[j].y
                       \/ pathData[i].y = pathData[j].y /\ pathData[i].x2 < pathData[j].x1
        /\ (\A q \in DOMAIN monoImage.pixel : monoImage.pixel[q] # "white") => pathData = <<>>

\* an image with two runs in a row, the second one ending at the right edge
C23_Witness ==
    /\ pcTrace = "returned"
    /\ monoImage.width = 4
    /\ Cardinality(Runs(monoImage, 0)) = 2
    /\ <<3, 3>> \in Runs(monoImage, 0)
    /\ Cardinality(Segments) >= 3
    /\ \E i \in Segments : pathData[i] = Segment(6 + unit, unit, 6 + unit)

(***************************************************************************)
(* Where the subpaths of a split outline start                             *)
(***************************************************************************)

\* the current point and the start of the current subpath after the path
\* data d, read from st on, on a line: M moves to the point 10, m moves
\* by 1, L draws to the point 5, z goes back to the start of the subpath
RECURSIVE Walk(_, _)
Walk(d, st) ==
    IF d = <<>> THEN st
    ELSE Walk(Tail(d),
              CASE Head(d) = "M" -> [pos |-> 10, start |-> 10]
                [] Head(d) = "m" -> [pos |-> st.pos + 1, start |-> st.pos + 1]
                [] Head(d) = "L" -> [pos |-> 5, start |-> st.start]
                [] Head(d) = "z" -> [pos |-> st.start, start |-> st.start]
                [] OTHER -> st)

Origin == [pos |-> 0, start |-> 0]

\* the pieces 1..n of the data, each one closed
RECURSIVE ClosedPieces(_, _)
ClosedPieces(pieces, n) ==
    IF n = 0 THEN <<>> ELSE ClosedPieces(pieces, n - 1) \o pieces[n] \o <<"z">>

\* the point the i-th piece of the outline's data starts at in the outline
\* as it was given: the point its first move leads to
StartInOutline(i) ==
    LET pieces == split(Outline0.d)
    IN Walk(ClosedPieces(pieces, i - 1) \o <<trimmed(pieces[i])[1]>>, Origin).pos

\* the sibling appended for the i-th piece, its data without the piece
\* (what was put before it), and the point the piece starts at in it
Sibling(i) == domDocument1[Len(svgString) + i - 1]
Body(i) ==
    trimmed(split(Outline0.d)[i]) \o (IF endsWithZ(Sibling(i).d) THEN <<"z">> ELSE <<>>)
Prefix(i) == SubSeq(Sibling(i).d, 1, Len(Sibling(i).d) - Len(Body(i)))
StartInSibling(i) == Walk(Prefix(i) \o <<trimmed(split(Outline0.d)[i])[1]>>, Origin).pos

\* the first moves of the pieces before the i-th, from the last piece that
\* starts with an absolute move on, every move followed by a blank
RECURSIVE FirstMoves(_, _)
FirstMoves(pieces, i) ==
    IF i = 1 THEN <<>>
    ELSE LET m == trimmed(pieces[i - 1])[1]
         IN IF m = "M" THEN <<"M", " ">> ELSE FirstMoves(pieces, i - 1) \o <<m, " ">>

\* the number of move commands of a piece
Moves(piece) == Cardinality({k \in DOMAIN piece : IsMove(piece[k])})

\* dealWithMultipleContours has split the outline
SplitDone ==
    /\ pcClip = "squash"
    /\ forWhy = "ForOutline"
    /\ hasMultipleContours(Outline0)
    /\ subpathsOK(Outline0)
    /\ split(Outline0.d) # <<>>

C24_FirstMovesTracked ==
    SplitDone =>
        LET pieces == split(Outline0.d)
        IN /\ domDocument1[1].d = pieces[1] \o <<"z">>
           /\ \A i \in 2..Len(pieces) :
                 /\ EndsWith(Sibling(i).d, Body(i))
                 /\ trimmed(pieces[i])[1] = "M" =>
                       Prefix(i) = <<>> /\ StartInSibling(i) = StartInOutline(i)
                 /\ trimmed(pieces[i])[1] = "m" =>
                       /\ Prefix(i) = FirstMoves(pieces, i)
                       /\ (\A j \in 1..(i - 1) : Moves(pieces[j]) = 1) =>
                             StartInSibling(i) = StartInOutline(i)

\* an outline of three subpaths, the second and third starting with m, has
\* been split and its third subpath starts where it did
C24_SingleMovesSplit ==
    /\ SplitDone
    /\ Len(split(Outline0.d)) = 3
    /\ \A j \in 1..3 : Moves(split(Outline0.d)[j]) = 1
    /\ trimmed(split(Outline0.d)[1])[1] = "M"
    /\ Prefix(3) = <<"M", " ", "m", " ">>
    /\ StartInSibling(3) = 12
    /\ StartInOutline(3) = 12

\* an outline whose first subpath holds a second move has been split, and
\* its second subpath starts elsewhere than it did
C24_SecondMoveLost ==
    /\ SplitDone
    /\ Moves(split(Outline0.d)[1]) = 2
    /\ Len(split(Outline0.d)) = 2
    /\ trimmed(split(Outline0.d)[2])[1] = "m"
    /\ StartInSibling(2) # StartInOutline(2)

(***************************************************************************)
(* The calls of mergeOutlineElement                                        *)
(***************************************************************************)

\* the positions of the paths document 2 holds when the raster fallback
\* starts: the paths that document 1 no longer draws
RasterPaths ==
    {i \in DOMAIN domDocument2 : /\ domDocument2[i].d # <<>>
                                 /\ NodeOf(domDocument1, domDocument2[i].key).tag = "g"}

\* the positions of RasterPaths that doc draws as paths
PathsDrawn(doc) == {i \in RasterPaths : doc[i].tag = "path"}

\* C25: when clipToBoard has run the raster fallback for the outline and
\* document 2 held P >= 1 paths, mergeOutlineElement has been called P
\* times, the p-th call with ix = p - 1 for the p-th path in document order,
\* that path being the only one of the P tagged "path" in the document
\* rendered by the call; when document 2 held no path, it has been called
\* once, with the document as it was; it is not called for any other layer
C25_OneMergePerPath ==
    pcClip = "returned" =>
        IF forWhy = "ForOutline" /\ rasterized
        THEN IF RasterPaths = {}
             THEN /\ Len(merged) = 1
                  /\ merged[1].ix = 0
                  /\ merged[1].document = domDocument2
             ELSE /\ Len(merged) = Cardinality(RasterPaths)
                  /\ \A c \in DOMAIN merged :
                        /\ merged[c].ix = c - 1
                        /\ PathsDrawn(merged[c].document) =
                              {i \in RasterPaths :
                                  Cardinality({j \in RasterPaths : j < i}) = c - 1}
                        /\ \A i \in DOMAIN domDocument2 \ RasterPaths :
                              merged[c].document[i] = domDocument2[i]
        ELSE merged = <<>>

\* the outline held two paths with a curve: two calls, the first one with
\* the first path drawn, the second one with the second
C25_Witness ==
    /\ pcClip = "returned"
    /\ forWhy = "ForOutline"
    /\ rasterized
    /\ Cardinality(RasterPaths) = 2
    /\ Len(merged) = 2
    /\ PathsDrawn(merged[1].document) = {1}
    /\ PathsDrawn(merged[2].document) = {2}

-----------------------------------------------------------------------------
(* The clip string of the silkscreen layers *)

SilkLayers == {"Silk0", "Silk1"}

\* the mask layer of the side of a silkscreen layer
MaskOf(silk) == IF silk = "Silk1" THEN "Mask1" ELSE "Mask0"

\* doMask was called for the layer and got a document back from the render,
\* from expandAndFill and from clipToBoard
MaskProduced(mask) ==
    /\ mask \in rendered
    /\ mask \notin emptyRenders \cup fillEmpty \cup clipEmpty

\* C26: a silkscreen layer is rendered after the mask layers of the board,
\* and its call of clipToBoard is given the clipped document of the mask layer
\* of its side when doMask produced one in this export, the empty string
\* (with which phaseB retags nothing) when it did not
C26_SilkClippedAgainstMaskOfItsSide ==
    \A silk \in SilkLayers :
        /\ silk \in rendered
              => /\ "Mask0" \in rendered
                 /\ boardLayers = 2 => "Mask1" \in rendered
        /\ clipStrings[silk] # NotCalled
              => /\ clipStrings[silk] = IF MaskProduced(MaskOf(silk)) THEN MaskOf(silk) ELSE ""
                 /\ clipStrings[silk] = ""
                       => \A e \in Palette :
                            phaseB(<<e>>, <<e.key>>, clipStrings[silk])
                              = [doc |-> <<e>>, anyClipped |-> FALSE]

\* both silkscreen layers clipped, the top one against its mask, the bottom
\* one against nothing because the bottom mask failed in expandAndFill
C26_Witness ==
    /\ pc = "done"
    /\ clipStrings["Silk1"] = "Mask1"
    /\ clipStrings["Silk0"] = ""
    /\ "Mask0" \in fillEmpty

\* the top silkscreen of a board of one layer is clipped against nothing
C26_WitnessOneLayer ==
    /\ boardLayers = 1
    /\ "Mask1" \notin rendered
    /\ clipStrings["Silk1"] = ""
    /\ clipStrings["Silk0"] = "Mask0"

-----------------------------------------------------------------------------
(* The visibility of the items doMask and doPasteMask hide *)

\* the items a layer is rendered without: the copper logo items for the mask
\* layers, the holes too for the paste mask layers
HiddenFor(layer) ==
    IF layer \in {"Mask0", "Mask1"} THEN CopperLogoItems
    ELSE IF layer \in {"PasteMask0", "PasteMask1"} THEN CopperLogoItems \cup HoleItems
    ELSE {}

\* C27: every call exportToGerber makes, doMask and doPasteMask on each of
\* their exit paths among them, leaves the set of visible items as it was,
\* while the layer was rendered with the copper logo items hidden (and the
\* holes, for the paste mask); so the visible items after the export are
\* those before it
C27_VisibilityRestored ==
    [][/\ visibleItems' = visibleItems
       /\ \A layer \in Layers :
            layer \in rendered' \ rendered
                => hiddenInRender'[layer] = (Items \ visibleItems) \cup HiddenFor(layer)]_vars

\* an export over, in which the bottom mask was rendered empty, the top mask
\* failed in expandAndFill, the bottom paste mask failed in makePasteMask and
\* the top paste mask was written: each was rendered without the logo (and
\* the hole), which are visible again
C27_Witness ==
    /\ pc = "done"
    /\ visibleItems = Items
    /\ "Mask0" \in emptyRenders
    /\ "Mask1" \in fillEmpty
    /\ "PasteMask0" \in fillEmpty
    /\ PasteMaskTopSuffix \in files
    /\ \A layer \in MaskLayers : hiddenInRender[layer] = HiddenFor(layer)
    /\ hiddenInRender["Silk1"] = {}

\* an item that was hidden before the export is hidden after it
C27_WitnessHidden ==
    /\ pc = "done"
    /\ visibleItems = {}
    /\ hiddenInRender["PasteMask0"] = Items

-----------------------------------------------------------------------------
(* cleanOutline, lines 787-821 *)

MaxChildren == 2
MagicBoardOutlineID == "boardoutline"

\* the elements without child elements a document of the outline layers can
\* hold: a path or a text, the board's outline or another item
OutlineElements == [tag : {"path", "text"}, id : {MagicBoardOutlineID, "logo"}]

\* the child elements of the root: an element of the above or a group of up
\* to MaxChildren of them
OutlineNodes ==
    [tag : {"path", "text"}, id : {MagicBoardOutlineID, "logo"}, children : {<<>>}]
    \cup [tag : {"g"}, id : {""},
          children : UNION {[1..n -> OutlineElements] : n \in 0..MaxChildren}]

OutlineDocuments == UNION {[1..n -> OutlineNodes] : n \in 0..MaxChildren}

\* an element is named by its place: <<0, 0>> the root, <<i, 0>> child i of
\* the root, <<i, j>> child j of child i
Root == <<0, 0>>

elementAt(doc, key) ==
    IF key = Root THEN [tag |-> "svg", id |-> ""]
    ELSE IF key[2] = 0 THEN [tag |-> doc[key[1]].tag, id |-> doc[key[1]].id]
    ELSE doc[key[1]].children[key[2]]

\* the elements of doc that are left when those of removed are taken out
ElementsOf(doc, removed) ==
    ({Root}
     \cup {<<i, 0>> : i \in DOMAIN doc}
     \cup UNION {{<<i, j>> : j \in DOMAIN doc[i].children} : i \in DOMAIN doc})
    \ (removed \cup {<<i, j>> : i \in {k \in DOMAIN doc : <<k, 0>> \in removed},
                                 j \in 1..MaxChildren + 1})

childElements(doc, removed, key) ==
    IF key = Root THEN {k \in ElementsOf(doc, removed) : k # Root /\ k[2] = 0}
    ELSE IF key[2] = 0 THEN {k \in ElementsOf(doc, removed) : k[1] = key[1] /\ k[2] # 0}
    ELSE {}

\* TextUtils::collectLeaves of the root (line 793), as a set: the elements
\* that have no child element
LeavesOf(doc, removed) ==
    {k \in ElementsOf(doc, removed) : childElements(doc, removed, k) = {}}

\* the same in document order, for the document as it is given
RECURSIVE leavesFrom(_, _)
leavesFrom(doc, i) ==
    IF i > Len(doc) THEN <<>>
    ELSE (IF doc[i].children = <<>> THEN << <<i, 0>> >>
          ELSE [j \in DOMAIN doc[i].children |-> <<i, j>>])
         \o leavesFrom(doc, i + 1)

leavesOfRoot(doc) == IF doc = <<>> THEN <<Root>> ELSE leavesFrom(doc, 1)

\* the text elements among the children of child i of the root, from child j on
RECURSIVE textChildrenFrom(_, _, _)
textChildrenFrom(doc, i, j) ==
    IF j > Len(doc[i].children) THEN <<>>
    ELSE (IF doc[i].children[j].tag = "text" THEN << <<i, j>> >> ELSE <<>>)
         \o textChildrenFrom(doc, i, j + 1)

\* lines 794-797: root.elementsByTagName("text") in document order
RECURSIVE textNodesFrom(_, _)
textNodesFrom(doc, i) ==
    IF i > Len(doc) THEN <<>>
    ELSE (IF doc[i].tag = "text" THEN << <<i, 0>> >> ELSE <<>>)
         \o textChildrenFrom(doc, i, 1)
         \o textNodesFrom(doc, i + 1)

\* lines 793-797
outlineLeaves(doc) == leavesOfRoot(doc) \o textNodesFrom(doc, 1)

\* lines 803-815 keeping the document as it is
removeNoLeaf(doc, leaves) == {}

\* lines 803-815: at the first leaf with the board outline's id every entry
\* of the list at another position is removed from its parent
removeOthers(doc, leaves) ==
    LET found == {i \in DOMAIN leaves : elementAt(doc, leaves[i]).id = MagicBoardOutlineID}
    IN IF found = {} THEN {}
       ELSE LET i == CHOOSE f \in found : \A g \in found : f <= g
            IN {leaves[j] : j \in DOMAIN leaves \ {i}}

\* lines 787-821: empty stands for the empty string returned, removed for
\* the elements taken out of the document returned
cleanOutlineDocument(doc) ==
    LET leaves == outlineLeaves(doc)
    IN IF Len(leaves) = 0 THEN [empty |-> TRUE, removed |-> {}]
       ELSE IF Len(leaves) = 1 THEN [empty |-> FALSE, removed |-> {}]
       ELSE [empty |-> FALSE, removed |-> removeOthers(doc, leaves)]

InitOutline ==
    /\ IdleExport
    /\ IdleRetry
    /\ IdleClip
    /\ IdleMount
    /\ IdlePixels
    /\ IdleTrace
    /\ IdleBin
    /\ pcOutline = "call"
    /\ outlineDoc \in OutlineDocuments
    /\ cleaned = [empty |-> TRUE, removed |-> {}]

\* the call of line 136
CleanOutline ==
    /\ pcOutline = "call"
    /\ pcOutline' = "returned"
    /\ cleaned' = cleanOutlineDocument(outlineDoc)
    /\ UNCHANGED <<outlineDoc, varsExport, varsRetry, varsClip, varsMount, varsPixels,
                   varsTrace, varsBin>>

SpecOutline == InitOutline /\ [][CleanOutline]_vars

\* the leaves of the document as it was given and as it is handed on
LeavesBefore == LeavesOf(outlineDoc, {})
LeavesAfter == LeavesOf(outlineDoc, cleaned.removed)
BoardOutlines(leaves) == {k \in leaves : elementAt(outlineDoc, k).id = MagicBoardOutlineID}

\* C28: the document cleanOutline returns has a single leaf; when the
\* document given has more than one, that leaf is a leaf with the id
\* boardoutline and no such leaf of the document given has been removed
C28_SingleBoardOutlineLeaf ==
    pcOutline = "returned"
        => /\ ~cleaned.empty
           /\ Cardinality(LeavesAfter) = 1
           /\ Cardinality(LeavesBefore) > 1
                 => /\ LeavesAfter \subseteq BoardOutlines(LeavesBefore)
                    /\ BoardOutlines(LeavesBefore) \cap cleaned.removed = {}

\* the first entry of the list with the board outline's id, as a set
FirstBoardOutline ==
    LET leaves == outlineLeaves(outlineDoc)
        found == {i \in DOMAIN leaves :
                    elementAt(outlineDoc, leaves[i]).id = MagicBoardOutlineID}
    IN {leaves[i] : i \in {f \in found : \A g \in found : f <= g}}

\* what the loop does keep: when the list has more than one entry and the
\* first one with the id boardoutline is not a text element, that element
\* stays and every other leaf of the document given is removed
C28_OthersRemovedWhenOutlineFound ==
    pcOutline = "returned" /\ Len(outlineLeaves(outlineDoc)) > 1
        => \A f \in FirstBoardOutline :
              elementAt(outlineDoc, f).tag # "text"
                  => /\ f \notin cleaned.removed
                     /\ LeavesBefore \ {f} \subseteq cleaned.removed

\* a document of several leaves none of which is the board outline is
\* returned as it is
C28_NoBoardOutlineKeepsAll ==
    /\ pcOutline = "returned"
    /\ Cardinality(LeavesBefore) > 1
    /\ BoardOutlines(LeavesBefore) = {}
    /\ LeavesAfter = LeavesBefore

\* a text element with the id boardoutline is in the list twice and is
\* removed as the other entry of itself
C28_TextOutlineRemoved ==
    /\ pcOutline = "returned"
    /\ \E f \in FirstBoardOutline : f \in cleaned.removed

\* the group whose children were removed is a leaf of the document returned
C28_EmptiedGroupIsLeaf ==
    /\ pcOutline = "returned"
    /\ \E f \in FirstBoardOutline : f \notin cleaned.removed /\ f \in LeavesAfter
    /\ \E k \in LeavesAfter \ LeavesBefore : elementAt(outlineDoc, k).tag = "g"

\* the outline found among several leaves and left as the only leaf
C28_SingleLeafLeft ==
    /\ pcOutline = "returned"
    /\ Cardinality(LeavesBefore) > 1
    /\ LeavesAfter \in {{f} : f \in FirstBoardOutline}

-----------------------------------------------------------------------------
(* PartsBinPaletteWidget: load and the cache of models *)

MaxModels == 3

\* the state the functions of the widgets read and write, as a record
Bin == [PaletteBinModels |-> PaletteBinModels, modelCount |-> modelCount,
        loadedFrom |-> loadedFrom, m_fileName |-> m_fileName, m_model |-> m_model,
        m_fastLoaded |-> m_fastLoaded, windowModified |-> windowModified, saved |-> saved]

SetBin(b) ==
    /\ PaletteBinModels' = b.PaletteBinModels
    /\ modelCount' = b.modelCount
    /\ loadedFrom' = b.loadedFrom
    /\ m_fileName' = b.m_fileName
    /\ m_model' = b.m_model
    /\ m_fastLoaded' = b.m_fastLoaded
    /\ windowModified' = b.windowModified
    /\ saved' = b.saved

\* lines 773-774
setFilename(b, w, filename) == [b EXCEPT !.m_fileName[w] = filename]

\* lines 570-572
currentBinIsCore(b, w) == b.m_fileName[w] = CorePartsBinLocation

\* lines 562-568
undoStackCleanChanged(b, w, isClean) ==
    LET b1 == IF ~isClean /\ currentBinIsCore(b, w) THEN setFilename(b, w, "") ELSE b
    IN [b1 EXCEPT !.windowModified[w] = ~isClean]

\* m_undoStack->setClean() (lines 254 and 291): cleanChanged(true) is emitted
\* when the stack was not clean, and line 83 connects it to the slot
setClean(b, w) == IF b.windowModified[w] THEN undoStackCleanChanged(b, w, TRUE) ELSE b

\* lines 282-293: setPaletteModel and afterModelSetted
setPaletteModel(b, w, model) ==
    setFilename(setClean([b EXCEPT !.m_model[w] = model], w), w, b.loadedFrom[model])

\* lines 503-537 putting the model into the hash whatever loadFromFile returned
loadNewCachingAll(b, w, filename, result) ==
    LET paletteBinModel == b.modelCount + 1
        b1 == [b EXCEPT !.modelCount = paletteBinModel,
                        !.loadedFrom = Append(@, IF result THEN filename ELSE "")]
    IN IF ~result
       THEN [b1 EXCEPT !.PaletteBinModels[filename] = paletteBinModel]
       ELSE [setPaletteModel(setFilename(b1, w, filename), w, paletteBinModel)
                EXCEPT !.PaletteBinModels[filename] = paletteBinModel]

\* lines 503-537: a new model is made and loaded from the file; result is
\* what loadFromFile returned
loadNew(b, w, filename, result) ==
    LET paletteBinModel == b.modelCount + 1
        b1 == [b EXCEPT !.modelCount = paletteBinModel,
                        !.loadedFrom = Append(@, IF result THEN filename ELSE "")]
    IN IF ~result
       THEN b1
       ELSE [setPaletteModel(setFilename(b1, w, filename), w, paletteBinModel)
                EXCEPT !.PaletteBinModels[filename] = paletteBinModel]

\* lines 482-560: ok is what getBinTitle returned in a fast load, what
\* loadFromFile returned otherwise
load(b, w, filename, fastLoad, ok) ==
    IF fastLoad
    THEN IF ok
         THEN [setFilename(b, w, filename) EXCEPT !.m_fastLoaded[w] = TRUE]
         ELSE b
    ELSE LET b0 == [b EXCEPT !.m_fastLoaded[w] = FALSE]
             paletteBinModel == b.PaletteBinModels[filename]
         IN IF paletteBinModel = nullptr
            THEN loadNew(b0, w, filename, ok)
            ELSE setPaletteModel(setFilename(b0, w, filename), w, paletteBinModel)

notBin == <<varsExport, varsRetry, varsClip, varsMount, varsPixels, varsTrace, varsOutline>>

InitLoad ==
    /\ IdleExport
    /\ IdleRetry
    /\ IdleClip
    /\ IdleMount
    /\ IdlePixels
    /\ IdleTrace
    /\ IdleOutline
    /\ IdleBin

\* a call of load on a widget
Load ==
    /\ \E w \in Widgets, filename \in BinFiles, fastLoad \in BOOLEAN, ok \in BOOLEAN :
        /\ (~fastLoad /\ PaletteBinModels[filename] = nullptr) => modelCount < MaxModels
        /\ SetBin(load(Bin, w, filename, fastLoad, ok))
        /\ lastLoad' = [op |-> "load", widget |-> w, filename |-> filename,
                         fastLoad |-> fastLoad, ok |-> ok]
    /\ UNCHANGED <<deletedModels, m_saveQuietly, lastClose, notBin>>

\* lines 150-155
Cleanup ==
    /\ deletedModels' = deletedModels \cup ({PaletteBinModels[f] : f \in BinFiles} \ {nullptr})
    /\ PaletteBinModels' = [f \in BinFiles |-> nullptr]
    /\ lastLoad' = [NoLoad EXCEPT !.op = "cleanup"]
    /\ UNCHANGED <<modelCount, loadedFrom, m_fileName, m_model, m_fastLoaded, m_saveQuietly,
                   windowModified, saved, lastClose, notBin>>

NextLoad == Load \/ Cleanup

SpecLoad == InitLoad /\ [][NextLoad]_vars

\* C29: in a call of load, the hash changes only by a non-fast load that
\* called loadFromFile with success, and then only at its file name, which
\* gets the model just loaded from it; a non-fast load of a file name in the
\* hash calls no loadFromFile and gives the widget the model of the hash; a
\* load whose loadFromFile failed leaves the hash and the widget's file name
\* and model as they were; m_fastLoaded is false after a non-fast load and
\* turns true only in a fast load whose getBinTitle succeeded
C29_LoadAndCache ==
    [][lastLoad'.op = "load" =>
        LET w == lastLoad'.widget
            filename == lastLoad'.filename
            fastLoad == lastLoad'.fastLoad
            ok == lastLoad'.ok
            loadFromFile == modelCount' > modelCount
            cached == PaletteBinModels[filename]
        IN /\ \A f \in BinFiles :
                PaletteBinModels'[f] # PaletteBinModels[f]
                    => /\ f = filename /\ ~fastLoad /\ loadFromFile /\ ok
                       /\ PaletteBinModels'[f] = modelCount'
                       /\ loadedFrom'[PaletteBinModels'[f]] = f
           /\ \A f \in BinFiles :
                PaletteBinModels'[f] # nullptr => loadedFrom'[PaletteBinModels'[f]] = f
           /\ ~fastLoad /\ cached # nullptr
                => /\ ~loadFromFile
                   /\ m_model'[w] = cached
                   /\ PaletteBinModels' = PaletteBinModels
           /\ ~fastLoad /\ cached = nullptr => loadFromFile
           /\ loadFromFile /\ ~ok
                => /\ PaletteBinModels' = PaletteBinModels
                   /\ m_fileName' = m_fileName
                   /\ m_model' = m_model
           /\ ~fastLoad => ~m_fastLoaded'[w]
           /\ \A v \in Widgets :
                m_fastLoaded'[v] /\ ~m_fastLoaded[v] => v = w /\ fastLoad /\ ok]_vars

\* the second widget has just loaded the file the first one loaded before:
\* one model was made, both widgets hold it, and a load of the other file
\* failed in between
C29_Witness ==
    /\ lastLoad = [op |-> "load", widget |-> "w2", filename |-> "my.fzb",
                    fastLoad |-> FALSE, ok |-> TRUE]
    /\ PaletteBinModels["my.fzb"] = 1
    /\ m_model = [w \in Widgets |-> 1]
    /\ modelCount = 2
    /\ loadedFrom = <<"my.fzb", "">>
    /\ PaletteBinModels[CorePartsBinLocation] = nullptr

-----------------------------------------------------------------------------
(* PartsBinPaletteWidget: beforeClosing and save *)

\* line 119
UntitledFileName == "Untitled Bin"

\* what QFileDialog::getSaveFileName can return (line 409): nothing when the
\* dialog is cancelled, a file name without or with the extension of a bin
DialogFileNames == {"", "new", "new.fzb"}

\* FolderUtils::isEmptyFileName (line 399)
isEmptyFileName(fileName, untitledFileName) ==
    fileName = "" \/ fileName = untitledFileName

\* lines 421-423: the extension is added to a name that has none
withBinExtension(fileName) == IF fileName = "new" THEN "new.fzb" ELSE fileName

\* lines 234-272: the name is set, the model is written to it and the undo
\* stack is clean
saveAsAux(b, w, filename) ==
    setClean([setFilename(b, w, filename) EXCEPT !.saved = @ \cup {filename}], w)

\* lines 407-426: fileName is what the file dialog returned
saveAs(b, w, fileName) ==
    IF fileName = ""
    THEN [bin |-> b, result |-> FALSE, saveAsCalled |-> TRUE, wrote |-> ""]
    ELSE [bin |-> saveAsAux(b, w, withBinExtension(fileName)), result |-> TRUE,
          saveAsCalled |-> TRUE, wrote |-> withBinExtension(fileName)]

\* save writing to the current file name whatever it is
saveToCurrent(b, w, fileName) ==
    [bin |-> saveAsAux(b, w, b.m_fileName[w]), result |-> TRUE,
     saveAsCalled |-> FALSE, wrote |-> b.m_fileName[w]]

\* lines 397-405
save(b, w, fileName) ==
    IF isEmptyFileName(b.m_fileName[w], UntitledFileName) \/ currentBinIsCore(b, w)
    THEN saveAs(b, w, fileName)
    ELSE [bin |-> saveAsAux(b, w, b.m_fileName[w]), result |-> TRUE,
          saveAsCalled |-> FALSE, wrote |-> b.m_fileName[w]]

\* lines 574-609: answer is the button of the message box, fileName what the
\* file dialog returns; each is read only when the dialog is shown
beforeClosing(b, w, saveQuietly, answer, fileName) ==
    LET reply == IF saveQuietly THEN "Save" ELSE answer
        s == save(b, w, fileName)
        call == [NoClose EXCEPT !.op = "beforeClosing", !.widget = w]
    IN IF ~b.windowModified[w]
       THEN [bin |-> b, call |-> [call EXCEPT !.retval = TRUE]]
       ELSE IF reply = "Save"
       THEN [bin |-> s.bin,
             call |-> [call EXCEPT !.reply = reply, !.dialog = ~saveQuietly,
                                   !.saveCalled = TRUE, !.saveAsCalled = s.saveAsCalled,
                                   !.chosen = IF s.saveAsCalled THEN fileName ELSE "",
                                   !.saveResult = s.result, !.wrote = s.wrote,
                                   !.retval = s.result]]
       ELSE [bin |-> b,
             call |-> [call EXCEPT !.reply = reply, !.dialog = TRUE,
                                   !.retval = (reply = "Discard")]]

\* an empty hash and widgets as the constructor leaves them
FreshBin ==
    [PaletteBinModels |-> [f \in BinFiles |-> nullptr], modelCount |-> 0,
     loadedFrom |-> <<>>, m_fileName |-> [w \in Widgets |-> ""],
     m_model |-> [w \in Widgets |-> nullptr], m_fastLoaded |-> [w \in Widgets |-> FALSE],
     windowModified |-> [w \in Widgets |-> FALSE], saved |-> {}]

\* each widget has loaded a bin
InitClose ==
    /\ IdleExport
    /\ IdleRetry
    /\ IdleClip
    /\ IdleMount
    /\ IdlePixels
    /\ IdleTrace
    /\ IdleOutline
    /\ \E f1 \in BinFiles, f2 \in BinFiles :
        LET b == load(load(FreshBin, "w1", f1, FALSE, TRUE), "w2", f2, FALSE, TRUE)
        IN /\ PaletteBinModels = b.PaletteBinModels
           /\ modelCount = b.modelCount
           /\ loadedFrom = b.loadedFrom
           /\ m_fileName = b.m_fileName
           /\ m_model = b.m_model
           /\ m_fastLoaded = b.m_fastLoaded
           /\ windowModified = b.windowModified
           /\ saved = b.saved
    /\ deletedModels = {}
    /\ m_saveQuietly = [w \in Widgets |-> FALSE]
    /\ lastLoad = NoLoad
    /\ lastClose = NoClose

\* the undo stack of a widget turns unclean (a part added, line 704) or
\* clean again (an undo): the slot of lines 562-568 runs
UndoStackCleanChanged ==
    /\ \E w \in Widgets, isClean \in BOOLEAN :
        /\ windowModified[w] = isClean
        /\ SetBin(undoStackCleanChanged(Bin, w, isClean))
    /\ lastClose' = NoClose
    /\ UNCHANGED <<deletedModels, m_saveQuietly, lastLoad, notBin>>

\* lines 821-823
SetSaveQuietly ==
    /\ \E w \in Widgets, saveQuietly \in BOOLEAN :
        m_saveQuietly' = [m_saveQuietly EXCEPT ![w] = saveQuietly]
    /\ lastClose' = NoClose
    /\ UNCHANGED <<PaletteBinModels, modelCount, loadedFrom, deletedModels, m_fileName, m_model,
                   m_fastLoaded, windowModified, saved, lastLoad, notBin>>

\* lines 773-774: the bin of a widget is given another name, the one of a
\* new bin among them
SetFilename ==
    /\ \E w \in Widgets, filename \in {"", UntitledFileName} \cup BinFiles :
        SetBin(setFilename(Bin, w, filename))
    /\ lastClose' = NoClose
    /\ UNCHANGED <<deletedModels, m_saveQuietly, lastLoad, notBin>>

\* a call of beforeClosing on a widget
BeforeClosing ==
    /\ \E w \in Widgets, answer \in {"Save", "Discard", "Cancel"},
          fileName \in DialogFileNames :
        LET r == beforeClosing(Bin, w, m_saveQuietly[w], answer, fileName)
        IN /\ SetBin(r.bin)
           /\ lastClose' = r.call
    /\ UNCHANGED <<deletedModels, m_saveQuietly, lastLoad, notBin>>

NextClose == UndoStackCleanChanged \/ SetSaveQuietly \/ SetFilename \/ BeforeClosing

SpecClose == InitClose /\ [][NextClose]_vars

\* the bin of the widget can be written under the name it has
NameIsWritable(w) ==
    /\ m_fileName[w] # ""
    /\ m_fileName[w] # UntitledFileName
    /\ m_fileName[w] # CorePartsBinLocation

\* C30: beforeClosing returns true exactly when the bin is not modified, or
\* the reply is Discard, or the reply is Save and save returned true; with
\* saveQuietly the reply is Save and no message box is shown.  save writes to
\* the current file name exactly when that name is not empty, not the
\* untitled name and not the core bin; otherwise it calls saveAs, which
\* returns false and writes nothing when the file dialog was cancelled
C30_BeforeClosing ==
    [][lastClose'.op = "beforeClosing" =>
        LET c == lastClose'
            w == c.widget
        IN /\ c.retval = (~windowModified[w]
                           \/ c.reply = "Discard"
                           \/ (c.reply = "Save" /\ c.saveResult))
           /\ c.reply = "Cancel" => ~c.retval
           /\ c.saveCalled /\ ~c.saveResult => ~c.retval
           /\ c.saveCalled = (windowModified[w] /\ c.reply = "Save")
           /\ windowModified[w] /\ m_saveQuietly[w] => c.reply = "Save" /\ ~c.dialog
           /\ windowModified[w] /\ ~m_saveQuietly[w] => c.dialog
           /\ ~c.saveCalled => saved' = saved /\ m_fileName' = m_fileName /\ c.wrote = ""
           /\ c.saveCalled /\ NameIsWritable(w)
                => /\ ~c.saveAsCalled
                   /\ c.wrote = m_fileName[w]
                   /\ saved' = saved \cup {m_fileName[w]}
                   /\ c.saveResult
           /\ c.saveCalled /\ ~NameIsWritable(w)
                => /\ c.saveAsCalled
                   /\ c.chosen = ""
                        => /\ ~c.saveResult
                           /\ c.wrote = ""
                           /\ saved' = saved
                           /\ m_fileName' = m_fileName
                   /\ c.chosen # ""
                        => /\ c.saveResult
                           /\ c.wrote \notin {"", m_fileName[w]}
                           /\ saved' = saved \cup {c.wrote}
                           /\ m_fileName'[w] = c.wrote]_vars

\* a modified core bin, whose name the slot has emptied, closed quietly with
\* the file dialog cancelled: beforeClosing returned false and nothing was
\* written
C30_Witness ==
    /\ lastClose.op = "beforeClosing"
    /\ lastClose.widget = "w1"
    /\ m_saveQuietly["w1"]
    /\ m_fileName["w1"] = ""
    /\ windowModified["w1"]
    /\ lastClose.saveAsCalled
    /\ ~lastClose.retval
    /\ saved = {}

\* a modified bin saved under its own name after the reply Save
C30_WitnessSaved ==
    /\ lastClose.op = "beforeClosing"
    /\ lastClose.reply = "Save"
    /\ lastClose.dialog
    /\ ~lastClose.saveAsCalled
    /\ lastClose.wrote = "my.fzb"
    /\ lastClose.retval

====
